---- MODULE Spec2Model ----
(***************************************************************************)
(* The JSON recovery engine of slapp-cloud-functions: the inline fallback  *)
(* parseJSONWithRepair of processEvaluation.js (the same text again in     *)
(* processMarkingSchemeExtraction.js) and its simple-evaluation variant.   *)
(*                                                                         *)
(* A text is a sequence of one-character strings.  A position reported by  *)
(* the JSON parser is 0-based, as in the message of the runtime            *)
(* ("... in JSON at position 7"); TLA+ sequences are 1-based, so the       *)
(* character the code calls repaired[p] is s[p + 1] here.                  *)
(***************************************************************************)
EXTENDS Integers, Sequences, FiniteSets, TLC

(***************************************************************************)
(* Characters                                                              *)
(***************************************************************************)
\* What the regular expression class \s and String.prototype.trim treat as
\* white space, among the characters of the model.
JsWhiteSpace == {" ", "\n", "\r", "\t", "\f"}

\* The white space JSON.parse skips between tokens (form feed is not in it).
JsonWhiteSpace == {" ", "\n", "\r", "\t"}

Digits == {"0", "1", "2", "3", "4", "5", "6", "7", "8", "9"}

LowerHex == {"a", "b", "c", "d", "e", "f"}

Letters ==
    {"a", "b", "c", "d", "e", "f", "g", "h", "i", "j", "k", "l", "m", "n", "o",
     "p", "q", "r", "s", "t", "u", "v", "w", "x", "y", "z",
     "A", "B", "J", "S", "O", "N"}

\* [a-zA-Z_$] and [a-zA-Z0-9_$] of the unquoted property name pattern.
IdentStart == Letters \cup {"_", "$"}

IdentPart == IdentStart \cup Digits

\* \w (and \d, which it contains) of the comma repair's test of beforeChar.
WordChars == Letters \cup Digits \cup {"_"}

\* char.charCodeAt(0) for the characters below 32 the model has; every other
\* character of the model is 32 or above.
charCodeAt(c) ==
    CASE c = "\t" -> 9
      [] c = "\n" -> 10
      [] c = "\f" -> 12
      [] c = "\r" -> 13
      [] OTHER -> 32

\* [\x00-\x1F]
IsControl(c) == charCodeAt(c) < 32

HexDigit(d) == IF d < 10 THEN <<"0", "1", "2", "3", "4", "5", "6", "7", "8", "9">>[d + 1]
               ELSE <<"a", "b", "c", "d", "e", "f">>[d - 9]

\* `\\u${char.charCodeAt(0).toString(16).padStart(4, '0')}` for a code below 256
UnicodeEscape(c) ==
    <<"\\", "u", "0", "0", HexDigit(charCodeAt(c) \div 16), HexDigit(charCodeAt(c) % 16)>>

HexValue(c) ==
    CASE c \in Digits -> (CHOOSE d \in 0..9 : HexDigit(d) = c)
      [] c \in LowerHex -> (CHOOSE d \in 10..15 : HexDigit(d) = c)
      [] OTHER -> -1

\* The character a \uXXXX escape denotes.  The model's texts only hold the
\* escapes the engine itself writes (codes 9, 10, 12, 13); any other code
\* is the marker "?", which ModelCoversParser shows is never produced.
CharOfCode(n) ==
    CASE n = 9 -> "\t"
      [] n = 10 -> "\n"
      [] n = 12 -> "\f"
      [] n = 13 -> "\r"
      [] OTHER -> "?"

(***************************************************************************)
(* JSON.parse of the runtime (Node.js 20, V8): the value of a text, or the *)
(* SyntaxError it throws.  An error is its kind and the position in its    *)
(* message; NoPosition for the messages that name none ("Unexpected end    *)
(* of JSON input", "Unexpected token ... is not valid JSON").              *)
(***************************************************************************)
NoPosition == -1

Ok(v, n) == [ok |-> TRUE, val |-> v, next |-> n]

\* i is the 1-based index of the offending character: position i - 1
Err(k, i) == [ok |-> FALSE, kind |-> k, pos |-> i - 1]

ErrNoPos(k) == [ok |-> FALSE, kind |-> k, pos |-> NoPosition]

StrVal(cs) == [string |-> cs]

NumVal(n) == [number |-> n]

LitVal(w) == [literal |-> w]

ArrVal(es) == [array |-> es]

\* an object is the function from its keys to its values
ObjVal(f) == [object |-> f]

\* a later duplicate of a key replaces the earlier value
PutProperty(f, k, v) == [x \in (DOMAIN f) \cup {k} |-> IF x = k THEN v ELSE f[x]]

RECURSIVE SkipWhiteSpace(_, _)
SkipWhiteSpace(s, i) ==
    IF i <= Len(s) /\ s[i] \in JsonWhiteSpace THEN SkipWhiteSpace(s, i + 1) ELSE i

SimpleEscapes == {"\"", "\\", "/", "b", "f", "n", "r", "t"}

Unescape(c) ==
    CASE c = "n" -> "\n"
      [] c = "r" -> "\r"
      [] c = "t" -> "\t"
      [] c = "f" -> "\f"
      [] c = "b" -> "?"
      [] OTHER -> c

\* c put before the characters of scan result r
Prepend(c, r) == IF r.ok THEN [r EXCEPT !.val = <<c>> \o @] ELSE r

\* The characters of a string literal whose opening quote is before index i.
RECURSIVE ScanJsonString(_, _)
ScanJsonString(s, i) ==
    IF i > Len(s) THEN Err("Unterminated string", i)
    ELSE IF s[i] = "\"" THEN Ok(<<>>, i + 1)
    ELSE IF s[i] = "\\" THEN
        IF i + 1 > Len(s) THEN Err("Bad escaped character", i + 1)
        ELSE IF s[i + 1] \in SimpleEscapes
            THEN Prepend(Unescape(s[i + 1]), ScanJsonString(s, i + 2))
        ELSE IF s[i + 1] = "u" THEN
            IF i + 5 <= Len(s) /\ \A k \in 2..5 : HexValue(s[i + k]) >= 0
            THEN Prepend(CharOfCode(HexValue(s[i + 2]) * 4096 + HexValue(s[i + 3]) * 256
                                    + HexValue(s[i + 4]) * 16 + HexValue(s[i + 5])),
                         ScanJsonString(s, i + 6))
            ELSE Err("Bad Unicode escape", i + 2)
        ELSE Err("Bad escaped character", i + 1)
    ELSE IF IsControl(s[i]) THEN Err("Bad control character", i)
    ELSE Prepend(s[i], ScanJsonString(s, i + 1))

RECURSIVE ScanDigits(_, _, _)
ScanDigits(s, i, n) ==
    IF i <= Len(s) /\ s[i] \in Digits
    THEN ScanDigits(s, i + 1, n * 10 + HexValue(s[i]))
    ELSE Ok(n, i)

\* An integer.  Fractions and exponents are outside the model's texts: a
\* number followed by ".", "e" or "E" is the kind "Unmodelled".
ParseJsonNumber(s, i) ==
    LET neg == s[i] = "-"
        j == IF neg THEN i + 1 ELSE i
    IN  IF j > Len(s) \/ s[j] \notin Digits THEN Err("No number after minus sign", j)
        ELSE IF s[j] = "0" /\ j + 1 <= Len(s) /\ s[j + 1] \in Digits
            THEN Err("Unexpected number", j + 1)
        ELSE LET r == ScanDigits(s, j, 0)
             IN  IF r.next <= Len(s) /\ s[r.next] \in {".", "e", "E"}
                 THEN Err("Unmodelled", r.next)
                 ELSE Ok(NumVal(IF neg THEN 0 - r.val ELSE r.val), r.next)

LiteralWords == {<<"t", "r", "u", "e">>, <<"f", "a", "l", "s", "e">>, <<"n", "u", "l", "l">>}

\* the error of a literal that breaks off at index i
LiteralError(s, i) ==
    IF i > Len(s) THEN ErrNoPos("Unexpected end of JSON input")
    ELSE IF s[i] \in Digits \cup {"-"} THEN Err("Unexpected number", i)
    ELSE IF s[i] = "\"" THEN Err("Unexpected string", i)
    ELSE ErrNoPos("Unexpected token")

RECURSIVE MatchLength(_, _, _, _)
MatchLength(s, i, w, k) ==
    IF k <= Len(w) /\ i + k - 1 <= Len(s) /\ s[i + k - 1] = w[k]
    THEN MatchLength(s, i, w, k + 1) ELSE k - 1

ScanLiteral(s, i) ==
    LET w == CHOOSE x \in LiteralWords : x[1] = s[i]
        m == MatchLength(s, i, w, 1)
    IN  IF m = Len(w) THEN Ok(LitVal(w), i + m) ELSE LiteralError(s, i + m)

RECURSIVE ParseJsonValue(_, _)
RECURSIVE ParseMembers(_, _, _)
RECURSIVE ParseElements(_, _, _)

\* the properties of an object from the key whose opening quote is at k
ParseMembers(s, k, obj) ==
    LET key == ScanJsonString(s, k + 1) IN
    IF ~key.ok THEN key ELSE
    LET c == SkipWhiteSpace(s, key.next) IN
    IF c > Len(s) \/ s[c] # ":" THEN Err("Expected ':' after property name", c) ELSE
    LET v == ParseJsonValue(s, c + 1) IN
    IF ~v.ok THEN v ELSE
    LET d == SkipWhiteSpace(s, v.next)
        obj2 == PutProperty(obj, key.val, v.val)
    IN  IF d <= Len(s) /\ s[d] = "," THEN
            LET e == SkipWhiteSpace(s, d + 1) IN
            IF e > Len(s) \/ s[e] # "\""
            THEN Err("Expected double-quoted property name", e)
            ELSE ParseMembers(s, e, obj2)
        ELSE IF d <= Len(s) /\ s[d] = "}" THEN Ok(ObjVal(obj2), d + 1)
        ELSE Err("Expected ',' or '}' after property value", d)

\* the elements of an array from the element that starts at or after k
ParseElements(s, k, es) ==
    LET v == ParseJsonValue(s, k) IN
    IF ~v.ok THEN v ELSE
    LET d == SkipWhiteSpace(s, v.next) IN
    IF d <= Len(s) /\ s[d] = "," THEN ParseElements(s, d + 1, Append(es, v.val))
    ELSE IF d <= Len(s) /\ s[d] = "]" THEN Ok(ArrVal(Append(es, v.val)), d + 1)
    ELSE Err("Expected ',' or ']' after array element", d)

ParseJsonValue(s, i0) ==
    LET i == SkipWhiteSpace(s, i0) IN
    IF i > Len(s) THEN ErrNoPos("Unexpected end of JSON input")
    ELSE IF s[i] = "\"" THEN
        LET r == ScanJsonString(s, i + 1)
        IN  IF r.ok THEN Ok(StrVal(r.val), r.next) ELSE r
    ELSE IF s[i] = "{" THEN
        LET k == SkipWhiteSpace(s, i + 1) IN
        IF k <= Len(s) /\ s[k] = "}" THEN Ok(ObjVal(<<>>), k + 1)
        ELSE IF k > Len(s) \/ s[k] # "\"" THEN Err("Expected property name or '}'", k)
        ELSE ParseMembers(s, k, <<>>)
    ELSE IF s[i] = "[" THEN
        LET k == SkipWhiteSpace(s, i + 1) IN
        IF k <= Len(s) /\ s[k] = "]" THEN Ok(ArrVal(<<>>), k + 1)
        ELSE ParseElements(s, k, <<>>)
    ELSE IF s[i] \in Digits \cup {"-"} THEN ParseJsonNumber(s, i)
    ELSE IF s[i] \in {"t", "f", "n"} THEN ScanLiteral(s, i)
    ELSE ErrNoPos("Unexpected token")

\* JSON.parse(text): [ok |-> TRUE, val |-> value] or the error thrown
JSONparse(s) ==
    LET r == ParseJsonValue(s, 1) IN
    IF ~r.ok THEN r
    ELSE LET e == SkipWhiteSpace(s, r.next)
         IN  IF e <= Len(s) THEN Err("Unexpected non-whitespace character after JSON", e)
             ELSE [ok |-> TRUE, val |-> r.val]

(***************************************************************************)
(* The text transformations of parseJSONWithRepair                         *)
(***************************************************************************)
RECURSIVE SkipJsWhiteSpace(_, _)
SkipJsWhiteSpace(s, i) ==
    IF i <= Len(s) /\ s[i] \in JsWhiteSpace THEN SkipJsWhiteSpace(s, i + 1) ELSE i

RECURSIVE LastNonWhiteSpace(_, _)
LastNonWhiteSpace(s, i) ==
    IF i >= 1 /\ s[i] \in JsWhiteSpace THEN LastNonWhiteSpace(s, i - 1) ELSE i

\* String.prototype.trim
Trim(s) == SubSeq(s, SkipJsWhiteSpace(s, 1), LastNonWhiteSpace(s, Len(s)))

\* whether the three characters from i are backticks
\* the backtick character (the module's lexer pairs a literal backtick with the
\* next prime, so the character is named)
Backtick == "backtick"

FenceAt(s, i) ==
    i + 2 <= Len(s) /\ s[i] = Backtick /\ s[i + 1] = Backtick /\ s[i + 2] = Backtick

\* three backticks and json, in any case of the letters (the flag i)
JsonFenceAt(s, i) ==
    /\ FenceAt(s, i)
    /\ i + 6 <= Len(s)
    /\ s[i + 3] \in {"j", "J"}
    /\ s[i + 4] \in {"s", "S"}
    /\ s[i + 5] \in {"o", "O"}
    /\ s[i + 6] \in {"n", "N"}

\* .replace(/(3 backticks)json\s*\n?/gi, ''): \s* is greedy and takes the line break too
RECURSIVE RemoveJsonFences(_, _)
RemoveJsonFences(s, i) ==
    IF i > Len(s) THEN <<>>
    ELSE IF JsonFenceAt(s, i) THEN RemoveJsonFences(s, SkipJsWhiteSpace(s, i + 7))
    ELSE <<s[i]>> \o RemoveJsonFences(s, i + 1)

\* .replace(/(3 backticks)\s*\n?/g, '')
RECURSIVE RemoveFences(_, _)
RemoveFences(s, i) ==
    IF i > Len(s) THEN <<>>
    ELSE IF FenceAt(s, i) THEN RemoveFences(s, SkipJsWhiteSpace(s, i + 3))
    ELSE <<s[i]>> \o RemoveFences(s, i + 1)

\* "Remove markdown code blocks": both replacements, then trim
StripCodeBlocks(s) == Trim(RemoveFences(RemoveJsonFences(s, 1), 1))

\* indexOf and lastIndexOf, as 1-based indexes; 0 when the character is absent
RECURSIVE IndexFrom(_, _, _)
IndexFrom(s, c, i) ==
    IF i > Len(s) THEN 0 ELSE IF s[i] = c THEN i ELSE IndexFrom(s, c, i + 1)

RECURSIVE LastIndexFrom(_, _, _)
LastIndexFrom(s, c, i) ==
    IF i < 1 THEN 0 ELSE IF s[i] = c THEN i ELSE LastIndexFrom(s, c, i - 1)

firstBrace(s) == IndexFrom(s, "{", 1)

lastBrace(s) == LastIndexFrom(s, "}", Len(s))

\* firstBrace >= 0 && lastBrace > firstBrace
HasBoundary(s) == firstBrace(s) >= 1 /\ lastBrace(s) > firstBrace(s)

\* a boundary step that gives up the text when it finds no boundary
ExtractBoundaryOrNothing(s) ==
    IF HasBoundary(s) THEN SubSeq(s, firstBrace(s), lastBrace(s)) ELSE <<>>

\* "Find actual JSON boundaries": the slice when there is one, else the text as it is
ExtractBoundary(s) ==
    IF HasBoundary(s) THEN SubSeq(s, firstBrace(s), lastBrace(s)) ELSE s

RECURSIVE SkipIdentPart(_, _)
SkipIdentPart(s, i) ==
    IF i <= Len(s) /\ s[i] \in IdentPart THEN SkipIdentPart(s, i + 1) ELSE i

\* .replace(/([{,]\s*)([a-zA-Z_$][a-zA-Z0-9_$]*)\s*:/g, '$1"$2":')
\* A match starts at a "{" or ","; j is where the name starts, k where it
\* ends, m the colon.  The search goes on after the colon.
RECURSIVE QuotePropertyNames(_, _)
QuotePropertyNames(s, i) ==
    IF i > Len(s) THEN <<>>
    ELSE LET j == SkipJsWhiteSpace(s, i + 1)
             k == SkipIdentPart(s, j)
             m == SkipJsWhiteSpace(s, k)
         IN  IF /\ s[i] \in {"{", ","}
                /\ j <= Len(s) /\ s[j] \in IdentStart
                /\ m <= Len(s) /\ s[m] = ":"
             THEN SubSeq(s, i, j - 1) \o <<"\"">> \o SubSeq(s, j, k - 1) \o <<"\"", ":">>
                  \o QuotePropertyNames(s, m + 1)
             ELSE <<s[i]>> \o QuotePropertyNames(s, i + 1)

\* .replace(/,(\s*[}\]])/g, '$1')
RECURSIVE RemoveTrailingCommas(_, _)
RemoveTrailingCommas(s, i) ==
    IF i > Len(s) THEN <<>>
    ELSE LET j == SkipJsWhiteSpace(s, i + 1)
         IN  IF s[i] = "," /\ j <= Len(s) /\ s[j] \in {"}", "]"}
             THEN SubSeq(s, i + 1, j) \o RemoveTrailingCommas(s, j + 1)
             ELSE <<s[i]>> \o RemoveTrailingCommas(s, i + 1)

\* what processEvaluation.js writes for a character read inside a string
EscapeInString(c) ==
    IF c = "\n" THEN <<"\\", "n">>
    ELSE IF c = "\r" THEN <<"\\", "r">>
    ELSE IF c = "\t" THEN <<"\\", "t">>
    ELSE IF charCodeAt(c) < 32 THEN UnicodeEscape(c)
    ELSE <<c>>

\* a scan that also doubles every backslash inside a string literal
RECURSIVE FixDoublingBackslashes(_, _, _, _)
FixDoublingBackslashes(s, i, inString, escapeNext) ==
    IF i > Len(s) THEN <<>>
    ELSE IF escapeNext THEN <<s[i]>> \o FixDoublingBackslashes(s, i + 1, inString, FALSE)
    ELSE IF s[i] = "\\"
    THEN (IF inString THEN <<"\\", "\\">> ELSE <<"\\">>)
         \o FixDoublingBackslashes(s, i + 1, inString, FALSE)
    ELSE IF s[i] = "\"" THEN <<s[i]>> \o FixDoublingBackslashes(s, i + 1, ~inString, FALSE)
    ELSE IF inString THEN EscapeInString(s[i]) \o FixDoublingBackslashes(s, i + 1, inString, FALSE)
    ELSE <<s[i]>> \o FixDoublingBackslashes(s, i + 1, inString, FALSE)

\* a scan that looks for the double quote before it looks at escapeNext
RECURSIVE FixQuoteFirst(_, _, _, _)
FixQuoteFirst(s, i, inString, escapeNext) ==
    IF i > Len(s) THEN <<>>
    ELSE IF s[i] = "\"" THEN <<s[i]>> \o FixQuoteFirst(s, i + 1, ~inString, FALSE)
    ELSE IF escapeNext THEN <<s[i]>> \o FixQuoteFirst(s, i + 1, inString, FALSE)
    ELSE IF s[i] = "\\" THEN <<s[i]>> \o FixQuoteFirst(s, i + 1, inString, TRUE)
    ELSE IF inString THEN EscapeInString(s[i]) \o FixQuoteFirst(s, i + 1, inString, FALSE)
    ELSE <<s[i]>> \o FixQuoteFirst(s, i + 1, inString, FALSE)

\* "Fix control characters in strings": the loop over the text from index i
\* with its two flags; the value is what the loop adds to result
RECURSIVE FixControlCharacters(_, _, _, _)
FixControlCharacters(s, i, inString, escapeNext) ==
    IF i > Len(s) THEN <<>>
    ELSE IF escapeNext THEN <<s[i]>> \o FixControlCharacters(s, i + 1, inString, FALSE)
    ELSE IF s[i] = "\\" THEN <<s[i]>> \o FixControlCharacters(s, i + 1, inString, TRUE)
    ELSE IF s[i] = "\"" THEN <<s[i]>> \o FixControlCharacters(s, i + 1, ~inString, FALSE)
    ELSE IF inString THEN EscapeInString(s[i]) \o FixControlCharacters(s, i + 1, inString, FALSE)
    ELSE <<s[i]>> \o FixControlCharacters(s, i + 1, inString, FALSE)

\* the same loop in the simple-evaluation function: a line break, carriage
\* return or tab inside a string becomes a space, nothing else changes
RECURSIVE BlankControlCharacters(_, _, _, _)
BlankControlCharacters(s, i, inString, escapeNext) ==
    IF i > Len(s) THEN <<>>
    ELSE IF escapeNext THEN <<s[i]>> \o BlankControlCharacters(s, i + 1, inString, FALSE)
    ELSE IF s[i] = "\\" THEN <<s[i]>> \o BlankControlCharacters(s, i + 1, inString, TRUE)
    ELSE IF s[i] = "\"" THEN <<s[i]>> \o BlankControlCharacters(s, i + 1, ~inString, FALSE)
    ELSE IF inString /\ s[i] \in {"\n", "\r", "\t"}
        THEN <<" ">> \o BlankControlCharacters(s, i + 1, inString, FALSE)
    ELSE <<s[i]>> \o BlankControlCharacters(s, i + 1, inString, FALSE)

\* the text after "Remove markdown code blocks"
Stripped(rawText) == StripCodeBlocks(Trim(rawText))

\* the two replacements that follow the boundary step
Normalize(s) == RemoveTrailingCommas(QuotePropertyNames(s, 1), 1)

\* the text the parse loop starts from: everything from the trim to the scan
Prepare(rawText) ==
    FixControlCharacters(Normalize(ExtractBoundary(Stripped(rawText))), 1, FALSE, FALSE)

\* the text the simple-evaluation function parses
PrepareSimple(rawText) ==
    BlankControlCharacters(Normalize(ExtractBoundary(Stripped(rawText))), 1, FALSE, FALSE)

(***************************************************************************)
(* The repairs of the parse loop                                           *)
(***************************************************************************)
\* errorMessage.match(/position (\d+)/)
positionMatch(e) == e.pos # NoPosition

\* errorMessage.includes("Expected ',' or '}'")
IsMissingSeparator(e) == e.kind = "Expected ',' or '}' after property value"

\* errorMessage.includes("Bad control character")
IsBadControl(e) == e.kind = "Bad control character"

InsertAt(s, j, c) == SubSeq(s, 1, j - 1) \o <<c>> \o SubSeq(s, j, Len(s))

\* "If we have a value before and a quote/brace after, add comma": p is the
\* 1-based index of repaired[position]
AddsCommaAtPosition(s, p) ==
    /\ p > 1
    /\ (s[p - 1] = "\"" \/ s[p - 1] \in WordChars \cup {"}"})
    /\ s[p] \in {"\"", "}", "]"}

ScanWindow == 50

\* a backward scan without a window: down to the start of the text
RECURSIVE LookBackwardsToStart(_, _, _)
LookBackwardsToStart(s, i, lo) ==
    IF i < 1 THEN s
    ELSE LET j == SkipJsWhiteSpace(s, i + 1)
         IN  IF /\ s[i] = "\""
                /\ (i = 1 \/ s[i - 1] # "\\")
                /\ j <= Len(s) /\ s[j] \in {"\"", "{", "["}
             THEN InsertAt(s, j, ",")
             ELSE LookBackwardsToStart(s, i - 1, lo)

\* "Look backwards for string end to add comma": from index i down to lo, the
\* first quote not preceded by a backslash that white space and then a quote,
\* brace or bracket follow gets the comma; the text is unchanged without one
RECURSIVE LookBackwards(_, _, _)
LookBackwards(s, i, lo) ==
    IF i < lo THEN s
    ELSE LET j == SkipJsWhiteSpace(s, i + 1)
         IN  IF /\ s[i] = "\""
                /\ (i = 1 \/ s[i - 1] # "\\")
                /\ j <= Len(s) /\ s[j] \in {"\"", "{", "["}
             THEN InsertAt(s, j, ",")
             ELSE LookBackwards(s, i - 1, lo)

\* the branch of "Expected ',' or '}'": position is the 0-based position of the message
AddMissingComma(s, position) ==
    LET p == position + 1 IN
    IF ~(position < Len(s)) THEN s
    ELSE IF AddsCommaAtPosition(s, p) THEN InsertAt(s, p, ",")
    ELSE LookBackwards(s, p - 1, IF position - ScanWindow > 0 THEN position - ScanWindow + 1 ELSE 1)

\* .replace(/[\x00-\x1F]/g, ...) of the "Bad control character" branch
RECURSIVE EscapeControlCharacters(_, _)
EscapeControlCharacters(s, i) ==
    IF i > Len(s) THEN <<>>
    ELSE (IF IsControl(s[i]) THEN UnicodeEscape(s[i]) ELSE <<s[i]>>)
         \o EscapeControlCharacters(s, i + 1)

(***************************************************************************)
(* The raw texts a call is given: every short text over the structural     *)
(* characters, and documents of the shapes a model response has (an        *)
(* object whose string holds any short body, the same in a code fence or   *)
(* in prose, bare property names, trailing commas, and members with and    *)
(* without the commas between them).                                       *)
(***************************************************************************)
MaxLen == 3

MaxStr == 3

MaxMembers == 6

Texts(A, n) == UNION {[1..k -> A] : k \in 0..n}

ShortAlphabet == {"{", "}", "[", "]", "\"", ":", ",", "a", "1", "\n", "\\"}

ShortTexts == Texts(ShortAlphabet, MaxLen)

Quote == <<"\"">>

KeyA == <<"\"", "a", "\"", ":">>

StrAlphabet == {"a", ":", ",", "}", Backtick, "\n", "\f", "\\"}

StrBodies == Texts(StrAlphabet, MaxStr)

\* {"a":"body"}
StringDoc(body) == <<"{">> \o KeyA \o Quote \o body \o Quote \o <<"}">>

StringDocs == {StringDoc(b) : b \in StrBodies}

\* "body" as the whole text
TopStrings == {Quote \o b \o Quote : b \in StrBodies}

Fence == <<Backtick, Backtick, Backtick>>

Wrappers ==
    { <<Fence \o <<"j", "s", "o", "n", "\n">>, <<"\n">> \o Fence>>,
      <<Fence \o <<"J", "S", "O", "N", " ">>, Fence>>,
      <<Fence \o <<"\n">>, <<"\n">> \o Fence>>,
      <<Fence \o <<"j", "s", "\n">>, <<"\n">> \o Fence \o <<"\n">>>>,
      <<<<"a", ":", " ">>, <<" ", "a">>>> }

Wrap(w, doc) == w[1] \o doc \o w[2]

WrappedDocs == {Wrap(w, d) : w \in Wrappers, d \in StringDocs}

PropertyNames ==
    { <<"\"", "a", "\"">>, <<"a">>, <<"b", " ">>, <<" ", "a", "1">>, <<"$", "_">> }

PropertyValues ==
    { <<"1">>, <<"\"", "x", "\"">>, <<"{", "}">>, <<"[", "1", "]">>,
      <<"{", "b", ":", "1", "}">>, <<"\"", ",", "b", ":", "\"">> }

Member(k, v) == k \o <<":">> \o v

KeyDocs ==
    {<<"{">> \o Member(k, v) \o <<"}">> : k \in PropertyNames, v \in PropertyValues}
    \cup {<<"{">> \o Member(k1, v1) \o <<",">> \o Member(k2, v2) \o <<"}">> :
            k1 \in PropertyNames, v1 \in PropertyValues,
            k2 \in PropertyNames, v2 \in PropertyValues}

TrailingCommas == {<<>>, <<",">>, <<",", " ">>, <<" ", ",", "\n">>}

CommaDocs ==
    UNION { { <<"{">> \o KeyA \o <<"1">> \o c \o <<"}">>,
              <<"{">> \o KeyA \o <<"[", "1">> \o c \o <<"]">> \o d \o <<"}">>,
              <<"[", "1">> \o c \o <<"]">>,
              <<"[", "{">> \o KeyA \o <<"1">> \o c \o <<"}">> \o d \o <<"]">>,
              <<"{">> \o KeyA \o <<"\"", ",", "}", "\"">> \o c \o <<"}">> }
            : c \in TrailingCommas, d \in TrailingCommas }

Separators == {<<",">>, <<>>, <<" ">>}

ChainValues == {<<"1">>, <<"\"", "x", "\"">>, <<"{", "}">>}

\* members 1..n of an object, each KeyA and v, with seps[i] before member i + 1
RECURSIVE ChainMembers(_, _, _)
ChainMembers(n, seps, v) ==
    IF n = 1 THEN KeyA \o v
    ELSE ChainMembers(n - 1, seps, v) \o seps[n - 1] \o KeyA \o v

ChainDocs ==
    UNION { {<<"{">> \o ChainMembers(n, seps, v) \o <<"}">> :
                seps \in [1..(n - 1) -> Separators], v \in ChainValues}
            : n \in 1..MaxMembers }

\* n spaces
Spaces(n) == [i \in 1 .. n |-> " "]

\* an object whose second value follows the first without a comma, the last
\* quote before it being just inside, and just outside, the window of the
\* backward scan
WindowDocs ==
    { <<"{", "\"", "\"", ":", "1">> \o Spaces(n) \o <<"{", "}", "}">> :
        n \in {ScanWindow - 4, ScanWindow - 3} }

\* texts that break off, and arrays that hold objects
OtherDocs ==
    { <<"{">> \o KeyA \o <<"1">>,
      <<"{">> \o KeyA \o <<"{", "}">>,
      <<"{">> \o KeyA \o <<"1", "\"", "b", "\"", ":", "1">>,
      <<"[", "{">> \o KeyA \o <<"1", "}", "]">>,
      <<"[", "{", "}", ",", "{", "}", "]">>,
      <<"[", "1", ",", "2", "]">>,
      <<" ", "\n">> \o <<"{">> \o KeyA \o <<"n", "u", "l", "l", "}">> \o <<"\n">>,
      <<"{">> \o KeyA \o <<"1", "}", " ", "{">> \o KeyA \o <<"1", "}">>,
      <<"{">> \o KeyA \o <<"1", "]">>,
      <<"{">> \o KeyA \o <<"1", "{">> \o KeyA \o <<"1", "}", "}">>,
      <<"{">> \o KeyA \o <<"\"", "x", "\"", "{">> \o KeyA \o <<"1", "}", "}">>,
      <<"{">> \o KeyA \o <<"\"", "x", "\"", "\t", "\"", "\n", "\"", "}">> }

RawTexts ==
    ShortTexts \cup StringDocs \cup TopStrings \cup WrappedDocs \cup KeyDocs
    \cup CommaDocs \cup ChainDocs \cup OtherDocs

(***************************************************************************)
(* One call of parseJSONWithRepair                                         *)
(***************************************************************************)
VARIABLES
    copy,           \* which function runs: "full" (processEvaluation.js and
                    \* processMarkingSchemeExtraction.js) or "simple"
    rawType,        \* typeof rawText
    rawText,        \* the argument
    pc,             \* "start", "loop", "final", "parse", "returned", "threw"
    repaired,       \* the working text
    parseAttempts,  \* the counter of the loop
    retval,         \* what the call returned or threw
    lastError,      \* the error of the last failed JSON.parse
    parses,         \* how many times JSON.parse ran
    repairs,        \* how many times a repair branch ran
    iterations,     \* how many times the loop body ran
    other,          \* a second call of the function that runs at the same
                    \* time: its argument and its locals
    caller,         \* the function that calls: the text of the model, its
                    \* rawResponseText, and what it returns or saves
    save,           \* an invocation of saveEvaluationResults: the request,
                    \* where the handler is, its response, and the exam
                    \* document in memory and in the database
    handler,        \* an invocation of the processEvaluation handler: the request,
                    \* where the handler is, and the responses it has sent
    papers,         \* the QuestionPaper documents of one tenantId and questionPaperUri,
                    \* and the calls of saveQuestionPaperToMongoDB for that pair
    retry           \* a call of retryWithBackoff: its arguments, its attempt, the
                    \* invocations of fn and how each ended

\* the one call: its argument, its locals, what it returns and the counts of its steps
thecall ==
    <<copy, rawType, rawText, pc, repaired, parseAttempts, retval, lastError,
      parses, repairs, iterations>>

\* what is no part of the one call: its steps leave it alone
beyond == <<other, caller, save, handler, papers, retry>>

\* what a step of the second call leaves alone besides the one call
besidesOther == <<caller, save, handler, papers, retry>>

\* what a step of the caller leaves alone
besidesCaller == <<other, save, handler, papers, retry>>

\* what a step of saveEvaluationResults leaves alone
besidesSave == <<thecall, other, caller, handler, papers, retry>>

besidesHandler == <<thecall, other, caller, save, papers, retry>>

besidesPapers == <<thecall, other, caller, save, handler, retry>>

besidesRetry == <<thecall, other, caller, save, handler, papers>>

vars == <<thecall, beyond>>

maxAttempts == 5

Copies == {"full", "simple"}

NoError == [kind |-> "none", pos |-> NoPosition]

NoResult == [kind |-> "none"]

Returned(v) == [kind |-> "value", val |-> v]

\* new Error('Invalid raw text provided')
InvalidRawText == [kind |-> "error", message |-> "Invalid raw text provided"]

\* new Error(`Failed to parse JSON after ${maxAttempts} repair attempts: ${finalError.message}`)
FailedAfterAttempts(e) ==
    [kind |-> "error", message |-> "Failed to parse JSON after repair attempts",
     attempts |-> maxAttempts, cause |-> e]

\* the SyntaxError of JSON.parse itself
SyntaxError(e) == [kind |-> "error", message |-> "SyntaxError", cause |-> e]

ErrorOf(r) == [kind |-> r.kind, pos |-> r.pos]

\* the locals of a call of the full function on the string text, at its entry
Call(text) ==
    [rawText |-> text, pc |-> "start", repaired |-> <<>>, parseAttempts |-> 0,
     retval |-> NoResult]

\* no second call
NoCall == [Call(<<>>) EXCEPT !.pc = "none"]

\* a caller that has the text of the model's response
\* no document of the QuestionPaper collection written by the request
NoQuestionPaper == [saved |-> FALSE, rawResponse |-> <<>>, status |-> "none", sections |-> "none"]

\* the request body of processMarkingSchemeExtraction, as far as the two
\* schemas look at it: whether it has a tenantId, and its language ("" for none)
Payload(tenantId, language) == [tenantId |-> tenantId, language |-> language]

Caller(name, text) ==
    [name |-> name, pc |-> "received", text |-> text, rawResponseText |-> <<>>,
     kept |-> FALSE, rawResponse |-> <<>>, status |-> "none",
     payload |-> Payload(TRUE, "english"),
     sections |-> "none",           \* sections of the saved marking scheme: markingScheme?.sections || []
     questionPaper |-> NoQuestionPaper,
     responses |-> <<>>]            \* the responses sent: res.status(200).json(...)

\* the call seen without its caller
NoCaller == [Caller("none", <<>>) EXCEPT !.pc = "none"]

\* saveEvaluationResults triggered with the request body responseData, the
\* exam of the request being in the database (with sheets student answer
\* sheets) or not
Invocation(responseData, examExists, sheets) ==
    [pc |-> "triggered", responseData |-> responseData,
     examExists |-> examExists, sheets |-> sheets,
     responses |-> <<>>,            \* the responses sent: res.status(...).json(...)
     examStatus |-> "none",         \* exam.status of the document in memory
     savedStatus |-> IF examExists THEN "processing" ELSE "none",
                                    \* status of the exam document in the database
     student |-> 0, successCount |-> 0, failCount |-> 0,
     error |-> "none"]

\* no invocation of saveEvaluationResults
NoInvocation ==
    [Invocation([status |-> "none", hasStudents |-> FALSE, students |-> {}], FALSE, 0)
        EXCEPT !.pc = "none"]

\* req.body of a request without a body: undefined
NoBody ==
    [present |-> FALSE, examId |-> FALSE, students |-> 0, documents |-> FALSE,
     examMetadata |-> FALSE]

\* processEvaluation of file ("index" for index.js, "processEvaluation" for
\* processEvaluation.js) triggered with the request body
Handler(file, body) ==
    [pc |-> "triggered", file |-> file, body |-> body,
     student |-> 0, evaluated |-> 0,
     examStatus |-> "processing",   \* status of the exam document in the database
     responses |-> <<>>,            \* the responses sent: res.status(...).json(...)
     error |-> "none"]

\* no invocation of the handler
NoHandler == [Handler("none", NoBody) EXCEPT !.pc = "none"]

\* the collection with docs (the status of each QuestionPaper document of the
\* pair that has softDelete false, in the order of creation) and the calls
\* that are to save the statuses of statuses
Papers(docs, statuses) ==
    [docs |-> docs,
     calls |-> [c \in DOMAIN statuses |->
                  [pc |-> "find", status |-> statuses[c], existing |-> 0]]]

\* no call of saveQuestionPaperToMongoDB
NoPapers == Papers(<<>>, <<>>)

\* retryWithBackoff called with maxRetries
Retry(maxRetries) ==
    [pc |-> "call", maxRetries |-> maxRetries, attempt |-> 1,
     invocations |-> 0,             \* how many times fn was invoked
     failures |-> <<>>,             \* the errors fn has thrown, in order
     extractionFailed |-> FALSE,    \* fn has thrown for a response without JSON
     thrown |-> <<>>]               \* the error the call has thrown, if any

\* no call of retryWithBackoff
NoRetry == [Retry(0) EXCEPT !.pc = "none"]

\* the one call at its entry
Entered ==
    /\ pc = "start"
    /\ repaired = <<>>
    /\ parseAttempts = 0
    /\ retval = NoResult
    /\ lastError = NoError
    /\ parses = 0
    /\ repairs = 0
    /\ iterations = 0

\* typeof of an argument that is no string (undefined; a number; null or an object)
NonStringTypes == {"undefined", "number", "object"}

Init ==
    /\ copy \in Copies
    /\ \/ rawType = "string" /\ rawText \in RawTexts
       \/ rawType \in NonStringTypes /\ rawText = <<>>
    /\ Entered
    /\ other = NoCall
    /\ caller = NoCaller
    /\ save = NoInvocation
    /\ handler = NoHandler
    /\ papers = NoPapers
    /\ retry = NoRetry

\* a check of the argument that looks at its type only
InvalidType == rawType # "string"

\* !rawText || typeof rawText !== 'string'
InvalidInput == rawType # "string" \/ rawText = <<>>

\* the function up to the loop: the check of the argument and the preparation
Begin ==
    /\ pc = "start"
    /\ copy = "full"
    /\ IF InvalidInput
       THEN pc' = "threw" /\ retval' = InvalidRawText /\ UNCHANGED repaired
       ELSE pc' = "loop" /\ repaired' = Prepare(rawText) /\ UNCHANGED retval
    /\ UNCHANGED <<copy, rawType, rawText, parseAttempts, lastError, parses, repairs, iterations, beyond>>

\* a loop that forgets to count
NoIncrement(n) == n

\* a loop that counts every failure twice
IncrementTwice(n) == n + 2

\* parseAttempts++
Increment(n) == n + 1

\* a classification that takes every error with a position for a known one
ClassifiedByPosition(e, n) == positionMatch(e) /\ n < maxAttempts

\* positionMatch && parseAttempts < maxAttempts, and one of the two known messages
Classified(e, n) ==
    positionMatch(e) /\ n < maxAttempts /\ (IsMissingSeparator(e) \/ IsBadControl(e))

\* the text after the repair of error e
Repair(s, e) ==
    IF IsMissingSeparator(e) THEN AddMissingComma(s, e.pos)
    ELSE IF IsBadControl(e) THEN EscapeControlCharacters(s, 1)
    ELSE s

\* a pass of the loop that does not return the value it has parsed but leaves
\* the return to the final attempt
IterateWithoutReturn ==
    /\ pc = "loop"
    /\ parseAttempts < maxAttempts
    /\ parses' = parses + 1
    /\ iterations' = iterations + 1
    /\ LET r == JSONparse(repaired) IN
       IF r.ok
       THEN /\ pc' = "final"
            /\ UNCHANGED <<retval, repaired, parseAttempts, lastError, repairs>>
       ELSE LET n == Increment(parseAttempts)
                e == ErrorOf(r)
            IN  /\ parseAttempts' = n
                /\ lastError' = e
                /\ UNCHANGED retval
                /\ IF Classified(e, n)
                   THEN /\ repaired' = Repair(repaired, e)
                        /\ repairs' = repairs + 1
                        /\ pc' = "loop"
                   ELSE /\ pc' = "final"
                        /\ UNCHANGED <<repaired, repairs>>
    /\ UNCHANGED <<copy, rawType, rawText, beyond>>

\* one pass of the while loop: the parse, and in the catch the count, the
\* classification and the repair, or the break
Iterate ==
    /\ pc = "loop"
    /\ parseAttempts < maxAttempts
    /\ parses' = parses + 1
    /\ iterations' = iterations + 1
    /\ LET r == JSONparse(repaired) IN
       IF r.ok
       THEN /\ pc' = "returned"
            /\ retval' = Returned(r.val)
            /\ UNCHANGED <<repaired, parseAttempts, lastError, repairs>>
       ELSE LET n == Increment(parseAttempts)
                e == ErrorOf(r)
            IN  /\ parseAttempts' = n
                /\ lastError' = e
                /\ UNCHANGED retval
                /\ IF Classified(e, n)
                   THEN /\ repaired' = Repair(repaired, e)
                        /\ repairs' = repairs + 1
                        /\ pc' = IF n < maxAttempts THEN "loop" ELSE "final"
                   ELSE /\ pc' = "final"
                        /\ UNCHANGED <<repaired, repairs>>
    /\ UNCHANGED <<copy, rawType, rawText, beyond>>

\* a final attempt that swallows the error and hands back the unparsed text
FinalAttemptKeepsText ==
    /\ pc = "final"
    /\ parses' = parses + 1
    /\ pc' = "returned"
    /\ LET r == JSONparse(repaired) IN
       retval' = IF r.ok THEN Returned(r.val) ELSE Returned(StrVal(repaired))
    /\ UNCHANGED <<copy, rawType, rawText, repaired, parseAttempts, lastError, repairs, iterations, beyond>>

\* "Final attempt"
FinalAttempt ==
    /\ pc = "final"
    /\ parses' = parses + 1
    /\ LET r == JSONparse(repaired) IN
       IF r.ok
       THEN pc' = "returned" /\ retval' = Returned(r.val) /\ UNCHANGED lastError
       ELSE /\ pc' = "threw"
            /\ retval' = FailedAfterAttempts(ErrorOf(r))
            /\ lastError' = ErrorOf(r)
    /\ UNCHANGED <<copy, rawType, rawText, repaired, parseAttempts, repairs, iterations, beyond>>

\* the simple-evaluation function up to its parse
BeginSimple ==
    /\ pc = "start"
    /\ copy = "simple"
    /\ IF InvalidInput
       THEN pc' = "threw" /\ retval' = InvalidRawText /\ UNCHANGED repaired
       ELSE pc' = "parse" /\ repaired' = PrepareSimple(rawText) /\ UNCHANGED retval
    /\ UNCHANGED <<copy, rawType, rawText, parseAttempts, lastError, parses, repairs, iterations, beyond>>

\* return JSON.parse(result)
ParseOnce ==
    /\ pc = "parse"
    /\ parses' = parses + 1
    /\ LET r == JSONparse(repaired) IN
       IF r.ok
       THEN pc' = "returned" /\ retval' = Returned(r.val) /\ UNCHANGED lastError
       ELSE /\ pc' = "threw"
            /\ retval' = SyntaxError(ErrorOf(r))
            /\ lastError' = ErrorOf(r)
    /\ UNCHANGED <<copy, rawType, rawText, repaired, parseAttempts, repairs, iterations, beyond>>

Next == Begin \/ Iterate \/ FinalAttempt \/ BeginSimple \/ ParseOnce

Spec == Init /\ [][Next]_vars

Terminal == pc \in {"returned", "threw"}

(***************************************************************************)
(* The catch of the loop on its own: a working text and the error of its   *)
(* parse, as the repair branches take them: a missing separator at any     *)
(* position, a bad control character where JSON.parse reports it.          *)
(***************************************************************************)
\* the working texts: the short texts, the objects whose string holds a
\* short body, and the objects of WindowDocs
RepairTexts == ShortTexts \cup StringDocs \cup WindowDocs

\* the messages with a position that have a repair
RepairedKinds == {"Expected ',' or '}' after property value", "Bad control character"}

RepairInit ==
    /\ copy = "full"
    /\ rawType = "string"
    /\ rawText \in RepairTexts
    /\ repaired = rawText
    /\ pc = "loop"
    /\ parseAttempts = 1
    /\ \E kind \in RepairedKinds, position \in 0 .. Len(rawText) :
         /\ kind = "Bad control character"
               => LET r == JSONparse(rawText)
                  IN  ~r.ok /\ ErrorOf(r) = [kind |-> kind, pos |-> position]
         /\ lastError = [kind |-> kind, pos |-> position]
    /\ retval = NoResult
    /\ parses = 1
    /\ repairs = 0
    /\ iterations = 1
    /\ other = NoCall
    /\ caller = NoCaller
    /\ save = NoInvocation
    /\ handler = NoHandler
    /\ papers = NoPapers
    /\ retry = NoRetry

\* the repair branch of the catch for the error that was caught
RepairStep ==
    /\ pc = "loop"
    /\ repairs = 0
    /\ Classified(lastError, parseAttempts)
    /\ repaired' = Repair(repaired, lastError)
    /\ repairs' = repairs + 1
    /\ UNCHANGED <<copy, rawType, rawText, pc, parseAttempts, retval, lastError, parses,
                   iterations, beyond>>

RepairNext == RepairStep

RepairSpec == RepairInit /\ [][RepairNext]_vars

(***************************************************************************)
(* Two calls at the same time.  repaired, parseAttempts and the scanner's  *)
(* flags are declared with let/const inside the arrow function, which      *)
(* reads nothing but its parameter: every call has locals of its own.  The *)
(* second call is the record other; the steps of the two calls interleave  *)
(* in any order (more freely than the synchronous function allows).        *)
(***************************************************************************)
\* the locals c of a call after its entry: the input check and the
\* transformations
StartStep(c) ==
    IF c.rawText = <<>>
    THEN [c EXCEPT !.pc = "threw", !.retval = InvalidRawText]
    ELSE [c EXCEPT !.pc = "loop", !.repaired = Prepare(c.rawText)]

\* the locals c of a call after one pass of its loop
LoopStep(c) ==
    LET r == JSONparse(c.repaired)
        n == Increment(c.parseAttempts)
    IN  IF r.ok THEN [c EXCEPT !.pc = "returned", !.retval = Returned(r.val)]
        ELSE IF Classified(ErrorOf(r), n)
        THEN [c EXCEPT !.parseAttempts = n, !.repaired = Repair(c.repaired, ErrorOf(r))]
        ELSE [c EXCEPT !.parseAttempts = n, !.pc = "final"]

\* the locals c of a call after its final attempt
FinalStep(c) ==
    LET r == JSONparse(c.repaired)
    IN  IF r.ok THEN [c EXCEPT !.pc = "returned", !.retval = Returned(r.val)]
        ELSE [c EXCEPT !.pc = "threw", !.retval = FailedAfterAttempts(ErrorOf(r))]

\* the locals c of a call after its next step
LocalStep(c) ==
    CASE c.pc = "start" -> StartStep(c)
      [] c.pc = "loop" -> LoopStep(c)
      [] c.pc = "final" -> FinalStep(c)
      [] OTHER -> c

OtherBegin ==
    /\ other.pc = "start"
    /\ other' = StartStep(other)
    /\ UNCHANGED <<thecall, besidesOther>>

\* a pass of the loop of the second call, were parseAttempts one variable
\* of the module that all calls count in
OtherIterateSharedCounter ==
    /\ other.pc = "loop"
    /\ other' = LoopStep([other EXCEPT !.parseAttempts = parseAttempts])
    /\ parseAttempts' = other'.parseAttempts
    /\ UNCHANGED <<copy, rawType, rawText, pc, repaired, retval, lastError,
                   parses, repairs, iterations, besidesOther>>

OtherIterate ==
    /\ other.pc = "loop"
    /\ other' = LoopStep(other)
    /\ UNCHANGED <<thecall, besidesOther>>

OtherFinalAttempt ==
    /\ other.pc = "final"
    /\ other' = FinalStep(other)
    /\ UNCHANGED <<thecall, besidesOther>>

\* the texts of two calls at the same time: none, no JSON, and objects of up
\* to MaxLen members with, and without, the commas between them
ConcurrentTexts ==
    {<<>>, <<"a">>}
    \cup UNION { {<<"{">> \o ChainMembers(n, seps, <<"1">>) \o <<"}">> :
                    seps \in [1..(n - 1) -> Separators]} : n \in 1..MaxLen }

TwoCallsInit ==
    /\ copy = "full"
    /\ rawType = "string"
    /\ rawText \in ConcurrentTexts
    /\ Entered
    /\ \E text \in ConcurrentTexts : other = Call(text)
    /\ caller = NoCaller
    /\ save = NoInvocation
    /\ handler = NoHandler
    /\ papers = NoPapers
    /\ retry = NoRetry

TwoCallsNext ==
    \/ Begin
    \/ Iterate
    \/ FinalAttempt
    \/ OtherBegin
    \/ OtherIterate
    \/ OtherFinalAttempt

TwoCallsSpec == TwoCallsInit /\ [][TwoCallsNext]_vars

(***************************************************************************)
(* The callers: generateStudentReportCardNewFormat of processEvaluation.js *)
(* ("evaluation"), which returns the raw response with the result, and     *)
(* processMarkingSchemeExtraction ("markingScheme"), which saves it with   *)
(* the marking scheme, with status draft, or parse_failed when the call    *)
(* throws.                                                                 *)
(***************************************************************************)
Callers == {"evaluation", "markingScheme"}

WhiteSpaceRuns == {<<>>, <<" ">>, <<"\n">>, <<" ", "\n">>}

\* the texts of the model: a response with white space before and after it
ModelTexts ==
    {pre \o doc \o post :
        pre \in WhiteSpaceRuns, post \in WhiteSpaceRuns,
        doc \in ConcurrentTexts \cup {StringDoc(<<"a", "\n", "a">>), <<" ", "a", " ", "a">>}}

\* const rawResponseText = String(text || '').trim(), and the call
\* parseJSONWithRepair(rawResponseText)
ReceiveText ==
    /\ caller.pc = "received"
    /\ pc = "none"
    /\ caller' = [caller EXCEPT !.pc = "calling", !.rawResponseText = Trim(caller.text)]
    /\ rawText' = Trim(caller.text)
    /\ pc' = "start"
    /\ UNCHANGED <<copy, rawType, repaired, parseAttempts, retval, lastError, parses, repairs,
                   iterations, besidesCaller>>

\* a caller that hands on the text the call has worked on
ReturnWorkingText ==
    /\ caller.pc = "calling" /\ caller.name = "evaluation"
    /\ pc = "returned"
    /\ caller' = [caller EXCEPT !.pc = "done", !.kept = TRUE, !.rawResponse = repaired,
                                !.status = "returned"]
    /\ UNCHANGED <<thecall, besidesCaller>>

\* return { students: studentsData, tokenUsage, rawResponse: rawResponseText }
ReturnRawResponse ==
    /\ caller.pc = "calling" /\ caller.name = "evaluation"
    /\ pc = "returned"
    /\ caller' = [caller EXCEPT !.pc = "done", !.kept = TRUE,
                                !.rawResponse = caller.rawResponseText, !.status = "returned"]
    /\ UNCHANGED <<thecall, besidesCaller>>

\* throw new Error(`Failed to parse JSON response: ${parseError.message}`)
RethrowParseError ==
    /\ caller.pc = "calling" /\ caller.name = "evaluation"
    /\ pc = "threw"
    /\ caller' = [caller EXCEPT !.pc = "done", !.status = "threw"]
    /\ UNCHANGED <<thecall, besidesCaller>>

\* the language enum of questionPaperSchema
LanguageEnum ==
    {"english", "hindi", "kannada", "telugu", "tamil", "malayalam", "marathi", "bengali",
     "gujarati", "punjabi", "other"}

Languages == {"", "english", "English"}

Payloads == {Payload(tenantId, language) : tenantId \in BOOLEAN, language \in Languages}

\* markingSchemeSchema: tenantId is required, language is any string
MarkingSchemeValid(payload) == payload.tenantId

\* saveQuestionPaperToMongoDB throws without a tenantId, and
\* questionPaperSchema validates language: payload.language || 'english'
QuestionPaperValid(payload) ==
    /\ payload.tenantId
    /\ (IF payload.language = "" THEN "english" ELSE payload.language) \in LanguageEnum

\* } catch (error) { res.status(200).json({ success: false, message: error.message }) }
ExtractionFailed(c) ==
    [c EXCEPT !.pc = "done",
              !.responses = Append(c.responses, [code |-> 200, success |-> FALSE, status |-> "none"])]

\* saveMarkingSchemeToMongoDB with the given status, the marking scheme being
\* passed (sections "parsed") or not (sections "none"): markingSchemeDoc.save()
\* validates the document
SaveMarkingScheme(c, status, sections) ==
    IF MarkingSchemeValid(c.payload)
    THEN [c EXCEPT !.pc = "markingSchemeSaved", !.kept = TRUE,
                   !.rawResponse = c.rawResponseText, !.status = status,
                   !.sections = sections]
    ELSE ExtractionFailed(c)

\* saveMarkingSchemeToMongoDB({..., markingScheme: markingSchemeData,
\* rawResponse: rawResponseText, status: 'draft'})
SaveDraft ==
    /\ caller.pc = "calling" /\ caller.name = "markingScheme"
    /\ pc = "returned"
    /\ caller' = SaveMarkingScheme(caller, "draft", "parsed")
    /\ UNCHANGED <<thecall, besidesCaller>>

\* saveMarkingSchemeToMongoDB({..., rawResponse: rawResponseText, status: 'parse_failed'})
SaveParseFailed ==
    /\ caller.pc = "calling" /\ caller.name = "markingScheme"
    /\ pc = "threw"
    /\ caller' = SaveMarkingScheme(caller, "parse_failed", "none")
    /\ UNCHANGED <<thecall, besidesCaller>>

\* saveQuestionPaperToMongoDB({..., questionPaperData, rawResponse:
\* rawResponseText, status}) after the marking scheme, with the parsed data and
\* 'draft' when the call returned, with null and 'parse_failed' when it threw,
\* and then the response
SaveQuestionPaper ==
    /\ caller.pc = "markingSchemeSaved" /\ caller.name = "markingScheme"
    /\ caller' =
          IF QuestionPaperValid(caller.payload)
          THEN [caller EXCEPT
                   !.pc = "done",
                   !.questionPaper =
                       [saved |-> TRUE, rawResponse |-> caller.rawResponseText,
                        status |-> IF pc = "returned" THEN "draft" ELSE "parse_failed",
                        sections |-> IF pc = "returned" THEN "parsed" ELSE "none"],
                   !.responses =
                       Append(caller.responses,
                              [code |-> 200, success |-> TRUE,
                               status |-> IF pc = "returned" THEN "draft" ELSE "parse_failed"])]
          ELSE ExtractionFailed(caller)
    /\ UNCHANGED <<thecall, besidesCaller>>

CallerInit ==
    /\ \E name \in Callers, text \in ModelTexts :
          \/ name = "evaluation" /\ caller = Caller(name, text)
          \/ /\ name = "markingScheme"
             /\ \E payload \in Payloads : caller = [Caller(name, text) EXCEPT !.payload = payload]
    /\ copy = "full"
    /\ rawType = "string"
    /\ rawText = <<>>
    /\ pc = "none"
    /\ repaired = <<>>
    /\ parseAttempts = 0
    /\ retval = NoResult
    /\ lastError = NoError
    /\ parses = 0
    /\ repairs = 0
    /\ iterations = 0
    /\ other = NoCall
    /\ save = NoInvocation
    /\ handler = NoHandler
    /\ papers = NoPapers
    /\ retry = NoRetry

CallerNext ==
    \/ ReceiveText
    \/ Begin
    \/ Iterate
    \/ FinalAttempt
    \/ ReturnRawResponse
    \/ RethrowParseError
    \/ SaveDraft
    \/ SaveParseFailed
    \/ SaveQuestionPaper

CallerSpec == CallerInit /\ [][CallerNext]_vars

(***************************************************************************)
(* saveEvaluationResults of saveResults.js: the function that receives the *)
(* results of an evaluation and writes them to the database.  Every        *)
(* operation on the database may fail; students are numbered from 1 to     *)
(* the number of answer sheets of the exam.                                *)
(***************************************************************************)
MaxSheets == 2

\* the request bodies: the status, whether results has a students map, and
\* the students the map has a result for
ResponseDatas ==
    [status : {"success", "failed"}, hasStudents : BOOLEAN,
     students : SUBSET (1 .. MaxSheets)]

\* the names declared in the scope of saveResults where the exam is updated;
\* createdByValue is a const of the block that saves one student
ScopeAtUpdate ==
    {"responseData", "examId", "tenantId", "evaluationLevel", "results",
     "createdBy", "exam", "markingScheme", "maxMarksMap",
     "studentsWithAnswers", "successCount", "failCount"}

\* reading a name where the exam is updated: a name out of scope is a
\* ReferenceError
InScopeAtUpdate(name) == name \in ScopeAtUpdate

\* res.headersSent
headersSent(s) == Len(s.responses) > 0

\* the catch of the handler: the request is acknowledged if it was not yet
Caught(s, error) ==
    [s EXCEPT !.pc = "done", !.error = error,
              !.responses = IF headersSent(s) THEN @
                            ELSE Append(@, [code |-> 200, success |-> FALSE])]

\* connectToDatabase
Connect ==
    /\ save.pc = "triggered"
    /\ \E ok \in BOOLEAN :
         save' = IF ok THEN [save EXCEPT !.pc = "connected"]
                 ELSE Caught(save, "connection")
    /\ UNCHANGED besidesSave

\* the immediate response, sent before anything is saved
Respond ==
    /\ save.pc = "connected"
    /\ save' = [save EXCEPT !.pc = "responded",
                            !.responses = Append(@, [code |-> 200, success |-> TRUE])]
    /\ UNCHANGED besidesSave

\* saveResults: Exam.findOne
FetchExam ==
    /\ save.pc = "responded"
    /\ save.responseData.status = "success"
    /\ \E ok \in BOOLEAN :
         save' = IF ~ok THEN Caught(save, "database")
                 ELSE IF ~save.examExists
                 THEN Caught(save, "Exam not found in database")
                 ELSE [save EXCEPT !.pc = "scheme", !.examStatus = save.savedStatus]
    /\ UNCHANGED besidesSave

\* saveResults: the marking scheme and the students with answer sheets
FetchMarkingScheme ==
    /\ save.pc = "scheme"
    /\ \E ok \in BOOLEAN :
         save' = IF ok THEN [save EXCEPT !.pc = "students", !.student = 1]
                 ELSE Caught(save, "database")
    /\ UNCHANGED besidesSave

\* saveResults: one turn of the loop over the students with answer sheets
SaveStudent ==
    /\ save.pc = "students"
    /\ save.student <= save.sheets
    /\ \E ok \in BOOLEAN :
         save' = IF ~save.responseData.hasStudents
                 THEN Caught(save, "TypeError")
                 ELSE IF save.student \notin save.responseData.students \/ ~ok
                 THEN [save EXCEPT !.student = @ + 1, !.failCount = @ + 1]
                 ELSE [save EXCEPT !.student = @ + 1, !.successCount = @ + 1]
    /\ UNCHANGED besidesSave

\* saveResults after the loop: the status of the exam, updatedBy, exam.save()
UpdateExam ==
    /\ save.pc = "students"
    /\ save.student > save.sheets
    /\ \E ok \in BOOLEAN :
         LET updated == [save EXCEPT !.examStatus = "evaluated"]
         IN  save' = IF ~InScopeAtUpdate("createdByValue")
                     THEN Caught(updated, "ReferenceError")
                     ELSE IF ~ok THEN Caught(updated, "database")
                     ELSE [updated EXCEPT !.pc = "done", !.savedStatus = "evaluated"]
    /\ UNCHANGED besidesSave

\* handleEvaluationError: the exam goes back to 'created'; errors are logged
HandleEvaluationError ==
    /\ save.pc = "responded"
    /\ save.responseData.status # "success"
    /\ \E ok \in BOOLEAN :
         save' = IF ok /\ save.examExists
                 THEN [save EXCEPT !.pc = "done", !.examStatus = "created",
                                   !.savedStatus = "created"]
                 ELSE [save EXCEPT !.pc = "done"]
    /\ UNCHANGED besidesSave

SaveInit ==
    /\ \E responseData \in ResponseDatas, examExists \in BOOLEAN, sheets \in 0 .. MaxSheets :
         /\ ~examExists => sheets = 0
         /\ save = Invocation(responseData, examExists, sheets)
    /\ copy = "full"
    /\ rawType = "string"
    /\ rawText = <<>>
    /\ pc = "none"
    /\ repaired = <<>>
    /\ parseAttempts = 0
    /\ retval = NoResult
    /\ lastError = NoError
    /\ parses = 0
    /\ repairs = 0
    /\ iterations = 0
    /\ other = NoCall
    /\ caller = NoCaller
    /\ handler = NoHandler
    /\ papers = NoPapers
    /\ retry = NoRetry

SaveNext ==
    \/ Connect
    \/ Respond
    \/ FetchExam
    \/ FetchMarkingScheme
    \/ SaveStudent
    \/ UpdateExam
    \/ HandleEvaluationError

SaveSpec == SaveInit /\ [][SaveNext]_vars

(***************************************************************************)
(* The processEvaluation handlers of index.js and processEvaluation.js.    *)
(* A request body is undefined (the request has none) or an object with    *)
(* or without the fields the handler validates; every operation on the     *)
(* database and every evaluation may fail.                                 *)
(***************************************************************************)
MaxStudents == 2

\* the request bodies: req.body undefined, or an object with examId or not,
\* students students, the documents (question paper, and in
\* processEvaluation.js tenantId and marking scheme) or not, examMetadata
\* or not
Bodies ==
    {NoBody}
    \cup [present : {TRUE}, examId : BOOLEAN, students : 0 .. MaxStudents,
          documents : BOOLEAN, examMetadata : BOOLEAN]

\* the payload passes the validation
ValidPayload(body) ==
    body.examId /\ body.students > 0 /\ body.documents /\ body.examMetadata

\* the try block up to the end of the validation: payload.examId of a body
\* that is undefined is a TypeError
Validate ==
    /\ handler.pc = "triggered"
    /\ handler' = IF ~handler.body.present
                  THEN [handler EXCEPT !.pc = "catch", !.error = "TypeError"]
                  ELSE IF ~ValidPayload(handler.body)
                  THEN [handler EXCEPT !.pc = "catch", !.error = "Invalid payload"]
                  ELSE [handler EXCEPT !.pc = "connect"]
    /\ UNCHANGED besidesHandler

\* connectToDatabase
ConnectHandler ==
    /\ handler.pc = "connect"
    /\ \E ok \in BOOLEAN :
         handler' = IF ok THEN [handler EXCEPT !.pc = "evaluate", !.student = 1]
                    ELSE [handler EXCEPT !.pc = "catch", !.error = "connection"]
    /\ UNCHANGED besidesHandler

\* the evaluation: processWithGemini for all students in index.js, where a
\* failure is thrown; one student per turn in processEvaluation.js, where
\* the failure of a student is logged
Evaluate ==
    /\ handler.pc = "evaluate"
    /\ \E ok \in BOOLEAN :
         handler' =
            IF handler.file = "index"
            THEN IF ok THEN [handler EXCEPT !.pc = "save", !.evaluated = handler.body.students]
                 ELSE [handler EXCEPT !.pc = "catch", !.error = "evaluation"]
            ELSE [handler EXCEPT
                    !.student = @ + 1,
                    !.evaluated = IF ok THEN @ + 1 ELSE @,
                    !.pc = IF handler.student = handler.body.students THEN "save" ELSE @]
    /\ UNCHANGED besidesHandler

\* saveResultsToMongoDB and the response of the try block
SaveAndRespond ==
    /\ handler.pc = "save"
    /\ \E ok \in BOOLEAN :
         handler' =
            IF ok
            THEN [handler EXCEPT !.pc = "done", !.examStatus = "evaluated",
                                 !.responses = Append(@, [code |-> 200, success |-> TRUE])]
            ELSE [handler EXCEPT !.pc = "catch", !.error = "database"]
    /\ UNCHANGED besidesHandler

\* the catch block, its inner try: connectToDatabase and handleSaveError,
\* whose errors are logged; req.body.examId in index.js is a TypeError when
\* the body is undefined, req.body?.examId in processEvaluation.js is not
SaveErrorStatus ==
    /\ handler.pc = "catch"
    /\ \E ok \in BOOLEAN :
         handler' =
            IF ok /\ handler.body.present /\ handler.body.examId
            THEN [handler EXCEPT !.pc = "failed", !.examStatus = "created"]
            ELSE [handler EXCEPT !.pc = "failed"]
    /\ UNCHANGED besidesHandler

\* the catch block, its response: the argument of json() reads
\* req.body.examId in index.js, a TypeError that leaves the handler when the
\* body is undefined, and req.body?.examId in processEvaluation.js
RespondFailure ==
    /\ handler.pc = "failed"
    /\ handler' =
          IF handler.file = "index" /\ ~handler.body.present
          THEN [handler EXCEPT !.pc = "rejected", !.error = "TypeError"]
          ELSE [handler EXCEPT !.pc = "done",
                               !.responses = Append(@, [code |-> 200, success |-> FALSE])]
    /\ UNCHANGED besidesHandler

HandlerInit ==
    /\ \E file \in {"index", "processEvaluation"}, body \in Bodies :
         handler = Handler(file, body)
    /\ copy = "full"
    /\ rawType = "string"
    /\ rawText = <<>>
    /\ pc = "none"
    /\ repaired = <<>>
    /\ parseAttempts = 0
    /\ retval = NoResult
    /\ lastError = NoError
    /\ parses = 0
    /\ repairs = 0
    /\ iterations = 0
    /\ other = NoCall
    /\ caller = NoCaller
    /\ save = NoInvocation
    /\ papers = NoPapers
    /\ retry = NoRetry

HandlerNext ==
    \/ Validate
    \/ ConnectHandler
    \/ Evaluate
    \/ SaveAndRespond
    \/ SaveErrorStatus
    \/ RespondFailure

HandlerSpec == HandlerInit /\ [][HandlerNext]_vars

(***************************************************************************)
(* saveQuestionPaperToMongoDB (unnamed/part_001): calls for the same        *)
(* tenantId and questionPaperUri that run at the same time.  Each await is *)
(* a point where another call may run; the schema of QuestionPaper has no  *)
(* unique index on the pair.                                               *)
(***************************************************************************)
MaxCalls == 3

PaperStatuses == {"draft", "parse_failed"}

\* QuestionPaper.findOne of call c: the first document of the pair, or none
FindExisting(c) ==
    /\ papers.calls[c].pc = "find"
    /\ papers' = [papers EXCEPT
                    !.calls[c].pc = "write",
                    !.calls[c].existing = IF Len(papers.docs) > 0 THEN 1 ELSE 0]
    /\ UNCHANGED besidesPapers

\* the write of call c: existingQuestionPaper.save() of the document it
\* found, or QuestionPaper.create of a new one
WritePaper(c) ==
    /\ papers.calls[c].pc = "write"
    /\ LET call == papers.calls[c] IN
       papers' = [papers EXCEPT
                    !.calls[c].pc = "done",
                    !.docs = IF call.existing > 0
                             THEN [@ EXCEPT ![call.existing] = call.status]
                             ELSE Append(@, call.status)]
    /\ UNCHANGED besidesPapers

PapersInit ==
    /\ \E n \in 1 .. MaxCalls, stored \in {<<>>, <<"draft">>} :
         \E statuses \in [1 .. n -> PaperStatuses] : papers = Papers(stored, statuses)
    /\ copy = "full"
    /\ rawType = "string"
    /\ rawText = <<>>
    /\ pc = "none"
    /\ repaired = <<>>
    /\ parseAttempts = 0
    /\ retval = NoResult
    /\ lastError = NoError
    /\ parses = 0
    /\ repairs = 0
    /\ iterations = 0
    /\ other = NoCall
    /\ caller = NoCaller
    /\ save = NoInvocation
    /\ handler = NoHandler
    /\ retry = NoRetry

PapersNext ==
    \E c \in DOMAIN papers.calls : FindExisting(c) \/ WritePaper(c)

PapersSpec == PapersInit /\ [][PapersNext]_vars

(***************************************************************************)
(* retryWithBackoff (index.js, unnamed/part_001) around a function that    *)
(* calls the model and extracts the JSON of its response, as               *)
(* generateStudentReportCard of index.js does.  An error is its status     *)
(* (0 for none) and its message, a text.                                   *)
(***************************************************************************)
MaxRetries == 3

PreviewLength == 500

\* message.includes(w)
includes(message, w) ==
    \E i \in 1 .. (Len(message) - Len(w) + 1) : SubSeq(message, i, i + Len(w) - 1) = w

Overloaded == <<"o", "v", "e", "r", "l", "o", "a", "d", "e", "d">>

Quota == <<"q", "u", "o", "t", "a">>

\* the errors of the call of the model
ApiErrors ==
    [status : {503, 429, 500}, message : {<<"e", "r", "r">>}]
    \cup [status : {0}, message : {<<"e", "r", "r">>, Overloaded, Quota}]

\* the texts of a response: a JSON document, and texts that hold none, with
\* one of the words within the preview, behind it, or not at all
ResponseTexts ==
    { <<"{">> \o KeyA \o <<"1", "}">>,
      <<"n", "o">>,
      <<"n", "o", " ">> \o Quota,
      <<"n", "o", " ">> \o Overloaded,
      <<"n", "o">> \o Spaces(PreviewLength) \o Quota }

\* text.substring(0, 500)
Preview(text) ==
    SubSeq(text, 1, IF Len(text) < PreviewLength THEN Len(text) ELSE PreviewLength)

\* the error of generateStudentReportCard for a response text without JSON
NoJSONError(text) ==
    [status |-> 0,
     message |->
        <<"R", "e", "s", "p", "o", "n", "s", "e", " ", "d", "o", "e", "s", " ",
        "n", "o", "t", " ", "c", "o", "n", "t", "a", "i", "n", " ", "e", "x",
        "p", "e", "c", "t", "e", "d", " ", "J", "S", "O", "N", " ", "w", "i",
        "t", "h", " ", "\"", "s", "t", "u", "d", "e", "n", "t", "s", "\"", " ",
        "k", "e", "y", ".", " ", "R", "e", "s", "p", "o", "n", "s", "e", " ",
        "p", "r", "e", "v", "i", "e", "w", ":", " ">>
        \o Preview(text)]

\* isRetryable
isRetryable(error) ==
    \/ error.status = 503
    \/ error.status = 429
    \/ includes(error.message, Overloaded)
    \/ includes(error.message, Quota)

\* a catch that takes every failure for a retryable one
AfterFailureAlwaysRetry(r, error) ==
    LET failed == [r EXCEPT !.invocations = @ + 1, !.failures = Append(@, error)]
    IN  IF r.attempt = r.maxRetries
        THEN [failed EXCEPT !.pc = "threw", !.thrown = <<error>>]
        ELSE [failed EXCEPT !.pc = "delay"]

\* the catch of one attempt: the throw, or the delay before the next attempt
AfterFailure(r, error) ==
    LET failed == [r EXCEPT !.invocations = @ + 1, !.failures = Append(@, error)]
    IN  IF r.attempt = r.maxRetries \/ ~isRetryable(error)
        THEN [failed EXCEPT !.pc = "threw", !.thrown = <<error>>]
        ELSE [failed EXCEPT !.pc = "delay"]

\* an attempt whose call of the model fails
InvokeApiFails ==
    /\ retry.pc = "call"
    /\ \E error \in ApiErrors : retry' = AfterFailure(retry, error)
    /\ UNCHANGED besidesRetry

\* an attempt whose call of the model answers with a text: the JSON of the
\* text is the result, a text without JSON is an error
InvokeAnswers ==
    /\ retry.pc = "call"
    /\ \E text \in ResponseTexts :
         retry' = IF JSONparse(text).ok
                  THEN [retry EXCEPT !.pc = "returned", !.invocations = @ + 1]
                  ELSE [AfterFailure(retry, NoJSONError(text))
                          EXCEPT !.extractionFailed = TRUE]
    /\ UNCHANGED besidesRetry

\* the delay, and the next turn of the for loop
Delay ==
    /\ retry.pc = "delay"
    /\ retry' = [retry EXCEPT !.pc = "call", !.attempt = @ + 1]
    /\ UNCHANGED besidesRetry

RetryInit ==
    /\ \E maxRetries \in 1 .. MaxRetries : retry = Retry(maxRetries)
    /\ copy = "full"
    /\ rawType = "string"
    /\ rawText = <<>>
    /\ pc = "none"
    /\ repaired = <<>>
    /\ parseAttempts = 0
    /\ retval = NoResult
    /\ lastError = NoError
    /\ parses = 0
    /\ repairs = 0
    /\ iterations = 0
    /\ other = NoCall
    /\ caller = NoCaller
    /\ save = NoInvocation
    /\ handler = NoHandler
    /\ papers = NoPapers

RetryNext == InvokeApiFails \/ InvokeAnswers \/ Delay

RetrySpec == RetryInit /\ [][RetryNext]_vars

(***************************************************************************)
(* Properties                                                              *)
(***************************************************************************)
\* the call was given a text it does not reject at once
Accepted == ~InvalidInput

\* a value was returned, and it is v
ReturnedValue(v) == pc = "returned" /\ retval = Returned(v)

\* every \u escape the parser met stood for a character of the model, and no
\* number had a fraction or an exponent
ModelCoversParser ==
    /\ lastError.kind # "Unmodelled"
    /\ \A i \in 1..Len(repaired) :
          (repaired[i] = "\\" /\ i + 5 <= Len(repaired) /\ repaired[i + 1] = "u")
              => \/ \E k \in 2..5 : HexValue(repaired[i + k]) < 0
                 \/ CharOfCode(HexValue(repaired[i + 2]) * 4096 + HexValue(repaired[i + 3]) * 256
                               + HexValue(repaired[i + 4]) * 16 + HexValue(repaired[i + 5])) # "?"

\* C1: a call that returns hands back the value JSON.parse gave for the final
\* working text; every other ended call threw an error (and the final text
\* did not parse, unless the argument was rejected); nothing is returned
\* before the call ends.
C1_ReturnsOnlyParsedValue ==
    /\ pc = "returned" => JSONparse(repaired).ok /\ retval = Returned(JSONparse(repaired).val)
    /\ pc = "threw" => retval.kind = "error" /\ (InvalidInput \/ ~JSONparse(repaired).ok)
    /\ ~Terminal => retval = NoResult

\* a value returned for a text that parsed only after a repair
C1_Witness ==
    /\ pc = "returned"
    /\ copy = "full"
    /\ repairs > 0
    /\ repaired # Prepare(rawText)
    /\ retval = Returned(JSONparse(repaired).val)

\* C2: a text that is valid JSON as it stands is returned with the value of
\* parsing it directly, after one parse and no repair.
C2_ValidTextParsedAsIs ==
    (copy = "full" /\ Accepted /\ JSONparse(rawText).ok /\ Terminal)
        => /\ ReturnedValue(JSONparse(rawText).val)
           /\ parses = 1
           /\ repairs = 0

\* the number of steps a call may still take: one to begin, one per pass of
\* the loop that is left, one for the final attempt
Remaining ==
    CASE pc = "start" -> maxAttempts + 2
      [] pc = "loop" -> maxAttempts - iterations + 1
      [] pc \in {"final", "parse"} -> 1
      [] OTHER -> 0

\* the call is at a step it can take (the guards of the five steps)
CanStep ==
    \/ pc = "start"
    \/ pc = "loop" /\ parseAttempts < maxAttempts
    \/ pc \in {"final", "parse"}

\* C3: every call ends: the loop body runs at most maxAttempts times (also
\* when a repair changes nothing), every step of a call leaves fewer steps to
\* take, and a call that has not ended can take its next step.
C3_Terminates ==
    [][/\ Remaining' < Remaining
       /\ Remaining' >= 0
       /\ iterations' <= maxAttempts
       /\ parses' <= maxAttempts + 1
       /\ (Terminal \/ CanStep)']_vars

\* maxAttempts passes of the loop, the classified repairs of which changed nothing
C3_Witness ==
    /\ pc = "threw"
    /\ iterations = maxAttempts
    /\ repairs = maxAttempts - 1
    /\ IsMissingSeparator(lastError)
    /\ repaired = Prepare(rawText)

\* C4: on a text that is valid JSON when the rewrite of property names runs
\* (so every name-like run of characters lies inside a string literal), the
\* rewrite changes no string value: the rewritten text has the same value.
C4_KeyRewriteKeepsStrings ==
    (pc # "start" /\ Accepted) =>
        LET b == ExtractBoundary(Stripped(rawText))
        IN  JSONparse(b).ok => JSONparse(QuotePropertyNames(b, 1)) = JSONparse(b)

\* whether a character below 32 stands inside a string literal of s, from
\* index i on (a quote opens or closes a literal unless a backslash escapes it)
RECURSIVE RawControlInString(_, _, _, _)
RawControlInString(s, i, inString, escapeNext) ==
    IF i > Len(s) THEN FALSE
    ELSE IF inString /\ IsControl(s[i]) THEN TRUE
    ELSE IF escapeNext THEN RawControlInString(s, i + 1, inString, FALSE)
    ELSE IF s[i] = "\\" THEN RawControlInString(s, i + 1, inString, TRUE)
    ELSE IF s[i] = "\"" THEN RawControlInString(s, i + 1, ~inString, FALSE)
    ELSE RawControlInString(s, i + 1, inString, FALSE)

\* the state right after the string scan, in either function
AfterScan == pc \in {"loop", "parse"} /\ iterations = 0 /\ parses = 0

\* C5: after the string scan no string literal of the working text holds a
\* raw control character.
C5_NoRawControlInStrings == AfterScan => ~RawControlInString(repaired, 1, FALSE, FALSE)

\* s with every raw line break, carriage return and tab inside a string
\* literal written as its JSON escape, and nothing else changed
RECURSIVE WithEscapes(_, _, _, _)
WithEscapes(s, i, inString, escapeNext) ==
    IF i > Len(s) THEN <<>>
    ELSE IF escapeNext THEN <<s[i]>> \o WithEscapes(s, i + 1, inString, FALSE)
    ELSE IF s[i] = "\\" THEN <<s[i]>> \o WithEscapes(s, i + 1, inString, TRUE)
    ELSE IF s[i] = "\"" THEN <<s[i]>> \o WithEscapes(s, i + 1, ~inString, FALSE)
    ELSE IF inString /\ s[i] = "\n" THEN <<"\\", "n">> \o WithEscapes(s, i + 1, inString, FALSE)
    ELSE IF inString /\ s[i] = "\r" THEN <<"\\", "r">> \o WithEscapes(s, i + 1, inString, FALSE)
    ELSE IF inString /\ s[i] = "\t" THEN <<"\\", "t">> \o WithEscapes(s, i + 1, inString, FALSE)
    ELSE <<s[i]>> \o WithEscapes(s, i + 1, inString, FALSE)

IsObject(r) == r.ok /\ DOMAIN r.val = {"object"}

\* C6: a text that is a valid JSON object but for raw line breaks, carriage
\* returns or tabs inside its strings is returned, in either function, as the
\* object whose strings hold those characters.
C6_RawControlsKept ==
    LET escaped == WithEscapes(rawText, 1, FALSE, FALSE) IN
    (Accepted /\ Terminal /\ escaped # rawText /\ IsObject(JSONparse(escaped)))
        => ReturnedValue(JSONparse(escaped).val) /\ lastError.kind # "Bad control character"

\* s with every bare property name (an identifier after "{" or ",", outside
\* string literals, with a colon after it) put in double quotes
RECURSIVE WithQuotedNames(_, _, _, _)
WithQuotedNames(s, i, inString, escapeNext) ==
    IF i > Len(s) THEN <<>>
    ELSE IF escapeNext THEN <<s[i]>> \o WithQuotedNames(s, i + 1, inString, FALSE)
    ELSE IF s[i] = "\\" THEN <<s[i]>> \o WithQuotedNames(s, i + 1, inString, TRUE)
    ELSE IF s[i] = "\"" THEN <<s[i]>> \o WithQuotedNames(s, i + 1, ~inString, FALSE)
    ELSE LET j == SkipJsWhiteSpace(s, i + 1)
             k == SkipIdentPart(s, j)
             m == SkipJsWhiteSpace(s, k)
         IN  IF /\ ~inString
                /\ s[i] \in {"{", ","}
                /\ j <= Len(s) /\ s[j] \in IdentStart
                /\ m <= Len(s) /\ s[m] = ":"
             THEN SubSeq(s, i, j - 1) \o <<"\"">> \o SubSeq(s, j, k - 1) \o <<"\"">>
                  \o SubSeq(s, k, m) \o WithQuotedNames(s, m + 1, FALSE, FALSE)
             ELSE <<s[i]>> \o WithQuotedNames(s, i + 1, inString, FALSE)

\* C7: an object text that is valid JSON but for bare property names is
\* returned as the object with those names as keys and the same values.
C7_BareNamesQuoted ==
    LET quoted == WithQuotedNames(rawText, 1, FALSE, FALSE) IN
    (copy = "full" /\ Accepted /\ Terminal /\ quoted # rawText /\ IsObject(JSONparse(quoted)))
        => ReturnedValue(JSONparse(quoted).val)

\* s without the commas that stand, outside string literals, directly
\* (white space aside) before a closing brace or bracket
RECURSIVE WithoutTrailingCommas(_, _, _, _)
WithoutTrailingCommas(s, i, inString, escapeNext) ==
    IF i > Len(s) THEN <<>>
    ELSE IF escapeNext THEN <<s[i]>> \o WithoutTrailingCommas(s, i + 1, inString, FALSE)
    ELSE IF s[i] = "\\" THEN <<s[i]>> \o WithoutTrailingCommas(s, i + 1, inString, TRUE)
    ELSE IF s[i] = "\"" THEN <<s[i]>> \o WithoutTrailingCommas(s, i + 1, ~inString, FALSE)
    ELSE LET j == SkipJsWhiteSpace(s, i + 1)
         IN  IF ~inString /\ s[i] = "," /\ j <= Len(s) /\ s[j] \in {"}", "]"}
             THEN WithoutTrailingCommas(s, i + 1, FALSE, FALSE)
             ELSE <<s[i]>> \o WithoutTrailingCommas(s, i + 1, inString, FALSE)

\* C8: a text that is valid JSON but for commas directly before a closing
\* brace or bracket is returned with the value of the text without them.
C8_TrailingCommasDeleted ==
    LET cut == WithoutTrailingCommas(rawText, 1, FALSE, FALSE) IN
    (copy = "full" /\ Accepted /\ Terminal /\ cut # rawText /\ JSONparse(cut).ok)
        => ReturnedValue(JSONparse(cut).val)

\* C9: a valid JSON object text in a code fence (with or without a language
\* tag) or between prose without braces is returned with its own value.
C9_WrappingChangesNothing ==
    (copy = "full" /\ Terminal /\ rawType = "string" /\ rawText \in WrappedDocs) =>
        \A w \in Wrappers, d \in StringDocs :
            (rawText = Wrap(w, d) /\ JSONparse(d).ok) => ReturnedValue(JSONparse(d).val)

\* the text has no "{", or no "}" after its first "{"
NoBoundary == Accepted /\ ~HasBoundary(Stripped(rawText))

\* the whole fence-stripped text after the two replacements and the scan
WholeTextPrepared ==
    IF copy = "full"
    THEN FixControlCharacters(Normalize(Stripped(rawText)), 1, FALSE, FALSE)
    ELSE BlankControlCharacters(Normalize(Stripped(rawText)), 1, FALSE, FALSE)

EmptyOrNotString == rawType # "string" \/ Len(rawText) = 0

\* C11: a call with the empty string or with an argument that is no string
\* throws the invalid-input error in its first step: the working text is never
\* set, nothing is parsed or repaired, and the counter stays 0.
C11_InvalidInputFailsAtOnce ==
    EmptyOrNotString =>
        /\ repaired = <<>> /\ parses = 0 /\ repairs = 0 /\ iterations = 0 /\ parseAttempts = 0
        /\ pc \in {"start", "threw"}
        /\ pc = "threw" => retval = InvalidRawText

\* the empty string, rejected
C11_Witness == rawType = "string" /\ rawText = <<>> /\ pc = "threw" /\ retval = InvalidRawText

\* C12: the error of a call that fails after its parses names the number of
\* attempts made in that call (the counter at the time) and the last error of
\* the parser.
C12_ErrorReportsAttemptsMade ==
    (copy = "full" /\ pc = "threw" /\ ~EmptyOrNotString)
        => retval.attempts = parseAttempts /\ retval.cause = lastError

\* C16: a parse that succeeds ends the call with its value in the same step,
\* and a call that has returned takes no further step: nothing is parsed or
\* repaired after the first successful parse.
C16_ReturnsOnFirstSuccess ==
    [][/\ pc # "returned"
       /\ (parses' > parses /\ JSONparse(repaired).ok)
             => /\ pc' = "returned"
                /\ retval' = Returned(JSONparse(repaired).val)
                /\ parses' = parses + 1
                /\ repairs' = repairs
                /\ repaired' = repaired]_vars

\* the third parse succeeded, after two repairs
C16_Witness == pc = "returned" /\ copy = "full" /\ parses = 3 /\ repairs = 2 /\ parseAttempts = 2

\* an object of n members "a": v, with the separators seps between them
ChainDoc(n, seps, v) == <<"{">> \o ChainMembers(n, seps, v) \o <<"}">>

\* C17: a text that lacks up to maxAttempts commas between its members, each
\* put back by one repair, is returned with the value of the complete text:
\* also the repair after the last failed parse of the loop is made, and the
\* final attempt parses its result.
C17_RepairAfterEachFailedParse ==
    (copy = "full" /\ rawType = "string" /\ Terminal) =>
        \A n \in 1..MaxMembers, v \in ChainValues :
            \A seps \in [1..(n - 1) -> {<<",">>, <<>>}] :
                (/\ rawText = ChainDoc(n, seps, v)
                 /\ Cardinality({i \in 1..(n - 1) : seps[i] = <<>>}) <= maxAttempts)
                    => ReturnedValue(JSONparse(ChainDoc(n, [i \in 1..(n - 1) |-> <<",">>], v)).val)

\* C18: the counter stays between 0 and maxAttempts, and no call makes more
\* than maxAttempts passes of the loop or repairs.
C18_AttemptsWithinCeiling ==
    /\ parseAttempts \in 0..maxAttempts
    /\ repairs <= maxAttempts
    /\ iterations <= maxAttempts
    /\ parseAttempts <= iterations

\* the counter at the ceiling
C18_Witness == parseAttempts = maxAttempts /\ repairs = maxAttempts - 1 /\ pc = "final"

\* C19: a pass of the loop that goes back to parsing (after a repair of a
\* classified failure) has changed the working text.
C19_RepairChangesText ==
    [][(pc = "loop" /\ pc' = "loop") => repaired' # repaired]_vars

\* the message of e names no position, or is none of the two the loop knows
Unclassified(e) == e.pos = NoPosition \/ ~(IsMissingSeparator(e) \/ IsBadControl(e))

\* C20: a pass of the loop whose parse fails with an unclassified error
\* repairs nothing, keeps the working text and leaves the loop; the final
\* attempt that follows ends the call with an error, the text still unchanged.
C20_UnclassifiedLeavesLoop ==
    [][LET r == JSONparse(repaired) IN
       /\ (pc = "loop" /\ ~r.ok /\ Unclassified(ErrorOf(r)))
             => pc' = "final" /\ repaired' = repaired /\ repairs' = repairs
       /\ pc = "final"
             => /\ pc' = "threw" /\ retval'.kind = "error"
                /\ repaired' = repaired /\ repairs' = repairs]_vars

\* a call that failed on an error with a position that is none of the two
C20_Witness ==
    /\ pc = "threw" /\ copy = "full"
    /\ lastError.pos # NoPosition /\ Unclassified(lastError)
    /\ parseAttempts = 1 /\ parses = 2 /\ repairs = 0

\* the locals of the one call, as a record
ThisCall ==
    [rawText |-> rawText, pc |-> pc, repaired |-> repaired, parseAttempts |-> parseAttempts,
     retval |-> retval]

\* the locals with which a call that runs alone from c ends
RECURSIVE Outcome(_)
Outcome(c) == IF c.pc \in {"returned", "threw"} THEN c ELSE Outcome(LocalStep(c))

\* C13: whatever the other call does and in whatever order the steps of the
\* two calls are taken, each call is at every moment where it would be had
\* it run alone on its argument: it ends with the value or error, working
\* text and counter that its own argument determines, and two calls with the
\* same argument end the same.
C13_CallsIndependent ==
    /\ Outcome(ThisCall) = Outcome(Call(rawText))
    /\ Outcome(other) = Outcome(Call(other.rawText))
    /\ (Terminal /\ other.pc \in {"returned", "threw"} /\ rawText = other.rawText)
          => ThisCall = other

\* the one call has returned a repaired text while the other, in the middle
\* of its loop, has counted three failures
C13_Witness ==
    /\ pc = "returned" /\ repairs = 2
    /\ other.pc = "loop" /\ other.parseAttempts = 3

\* C14: from the moment the caller has it, rawResponseText is the trimmed text
\* of the model, and it stays so while the call runs and after it, whether
\* the call returns or throws; the argument of the call is that text and is
\* never changed; what the caller returns or saves as rawResponse is that
\* text, not the working text of the call.
C14_RawResponseKept ==
    /\ caller.pc \in {"calling", "done"}
          => /\ caller.rawResponseText = Trim(caller.text)
             /\ rawText = caller.rawResponseText
    /\ caller.kept => caller.rawResponse = Trim(caller.text)

\* a raw response returned after a call that repaired its working text, the
\* text of the model having had white space around it
C14_Witness ==
    /\ caller.pc = "done" /\ caller.kept /\ caller.status = "returned"
    /\ repairs > 0 /\ repaired # rawText
    /\ caller.rawResponse # caller.text

\* the invocation has finished
Finished == save.pc = "done"

\* no operation on the database failed and results has its students map
NothingFailedOutside ==
    /\ save.error \notin {"connection", "database"}
    /\ save.responseData.hasStudents

\* C15: when saveEvaluationResults receives a response with status 'success'
\* for an exam that exists (the database working and the results well
\* formed), the exam document has been saved with status 'evaluated' by the
\* time the invocation finishes
C15_SuccessSavesEvaluated ==
    (Finished /\ save.responseData.status = "success" /\ save.examExists
              /\ NothingFailedOutside)
        => save.savedStatus = "evaluated"

\* C15, with a database that never fails: the update of the exam is reached
\* and the exam is still never saved as 'evaluated'
C15_NeverSavedEvaluated == save.savedStatus # "evaluated"

\* C15: the exam was marked 'evaluated' in memory with every student saved,
\* and the invocation finished
C15_ReachedUpdate ==
    /\ Finished
    /\ save.responseData.status = "success"
    /\ save.examExists
    /\ save.examStatus = "evaluated"
    /\ save.sheets = MaxSheets
    /\ save.successCount = MaxSheets

\* the pass of the loop that is taken ran the repair of a missing separator
\* (lastError' is the error it repaired, repaired the text before the repair)
RepairsMissingSeparator ==
    /\ pc = "loop"
    /\ repairs' = repairs + 1
    /\ IsMissingSeparator(lastError')
    /\ lastError'.pos < Len(repaired)

\* c ends a string or a value
EndsValue(c) == c = "\"" \/ c \in WordChars \cup {"}", "]"}

\* C21: on a missing-separator failure at offset p, if the character before p
\* ends a string or value and the character at p opens a new value (a double
\* quote, a brace or a bracket), the repair inserts one comma exactly at p;
\* it inserts no comma at p when the character at p is a closing brace or
\* bracket
C21_CommaAtOffset ==
    [][RepairsMissingSeparator =>
         LET p == lastError'.pos + 1 IN
         /\ (p > 1 /\ EndsValue(repaired[p - 1]) /\ repaired[p] \in {"\"", "{", "["})
               => repaired' = InsertAt(repaired, p, ",")
         /\ repaired[p] \in {"}", "]"} => repaired' # InsertAt(repaired, p, ",")]_vars

\* C22: a missing-separator repair changes the working text by inserting at
\* most one comma and nothing else, and when the comma is not put at the
\* failure offset it is put after a quote (and the white space behind it)
\* that lies at most ScanWindow characters before the failure offset
C22_OneCommaWithinWindow ==
    [][RepairsMissingSeparator =>
         LET p == lastError'.pos + 1 IN
         \/ repaired' = repaired
         \/ repaired' = InsertAt(repaired, p, ",")
         \/ \E i \in 1 .. (p - 1) :
              /\ p - i <= ScanWindow
              /\ repaired[i] = "\""
              /\ repaired' = InsertAt(repaired, SkipJsWhiteSpace(repaired, i + 1), ",")]_vars

\* the backward scan has put a comma before the failure offset, after a quote
\* that lies ScanWindow characters before it
C22_Witness ==
    /\ pc = "loop" /\ repairs = 1
    /\ IsMissingSeparator(lastError)
    /\ lastError.pos = ScanWindow + 1
    /\ repaired = InsertAt(rawText, 3, ",")

\* a quote that lies further back than the window has been left alone
C22_WitnessOutside ==
    /\ pc = "loop" /\ repairs = 1
    /\ IsMissingSeparator(lastError)
    /\ lastError.pos = ScanWindow + 2
    /\ repaired = rawText

\* the pass of the loop that is taken ran the repair of a bad control
\* character
RepairsBadControl ==
    /\ pc = "loop"
    /\ repairs' = repairs + 1
    /\ IsBadControl(lastError')

\* s with the control characters outside its string literals taken out
RECURSIVE OutsideStrings(_, _, _, _)
OutsideStrings(s, i, inString, escapeNext) ==
    IF i > Len(s) THEN <<>>
    ELSE IF escapeNext THEN OutsideStrings(s, i + 1, inString, FALSE)
    ELSE IF s[i] = "\\" THEN OutsideStrings(s, i + 1, inString, TRUE)
    ELSE IF s[i] = "\"" THEN OutsideStrings(s, i + 1, ~inString, FALSE)
    ELSE (IF ~inString /\ IsControl(s[i]) THEN <<s[i]>> ELSE <<>>)
         \o OutsideStrings(s, i + 1, inString, FALSE)

Scan(s) == FixControlCharacters(s, 1, FALSE, FALSE)

\* C24: the string scan is idempotent: for every text, the scan of its own
\* output is that output
C24_ScanIdempotent == Scan(Scan(rawText)) = Scan(rawText)

\* the scan has run on a text that it changes
C24_Witness ==
    /\ copy = "full" /\ pc = "loop" /\ iterations = 0
    /\ Scan(rawText) # rawText
    /\ Scan(Scan(rawText)) = Scan(rawText)

\* escapeNext when the scan reads s[i]: the character before is a backslash
\* that was not itself read under escapeNext
RECURSIVE EscapeNextAt(_, _)
EscapeNextAt(s, i) == i > 1 /\ s[i - 1] = "\\" /\ ~EscapeNextAt(s, i - 1)

\* inString when the scan reads s[i]: the double quotes read before it while
\* escapeNext was false are odd in number
InStringAt(s, i) ==
    Cardinality({j \in 1 .. (i - 1) : s[j] = "\"" /\ ~EscapeNextAt(s, j)}) % 2 = 1

\* what the scan is to emit for s[i]: the escape of a raw control character
\* read inside a string while escapeNext is false, the character otherwise
Emitted(s, i) ==
    IF IsControl(s[i]) /\ InStringAt(s, i) /\ ~EscapeNextAt(s, i)
    THEN EscapeInString(s[i])
    ELSE <<s[i]>>

RECURSIVE EmittedFrom(_, _)
EmittedFrom(s, i) == IF i > Len(s) THEN <<>> ELSE Emitted(s, i) \o EmittedFrom(s, i + 1)

\* C25: the scan applies escapeNext, escape character, double quote, control
\* character, in that order: inString toggles exactly at the double quotes
\* read while escapeNext is false, only the raw control characters read while
\* inString is true and escapeNext is false are changed, and every other
\* character is emitted unchanged and in order
C25_ScanRules == Scan(rawText) = EmittedFrom(rawText, 1)

\* the scan has run on a text that holds an escaped double quote and a raw
\* control character inside a string literal
C25_Witness ==
    /\ copy = "full" /\ pc = "loop" /\ iterations = 0
    /\ \E i \in 2 .. Len(rawText) : rawText[i] = "\"" /\ EscapeNextAt(rawText, i)
    /\ \E i \in 1 .. Len(rawText) :
         IsControl(rawText[i]) /\ InStringAt(rawText, i) /\ ~EscapeNextAt(rawText, i)

\* the invocation of the handler is over: it returned or it left with an error
HandlerOver == handler.pc \in {"done", "rejected"}

\* C26: every invocation of the processEvaluation handler, of index.js and of
\* processEvaluation.js, for any request (also one whose body is missing or
\* fails the validation), sends exactly one response, with status 200,
\* whether the evaluation succeeded or failed
C26_OneResponse200 ==
    /\ Len(handler.responses) <= 1
    /\ HandlerOver => /\ Len(handler.responses) = 1
                      /\ handler.responses[1].code = 200

\* C26 for the handler of processEvaluation.js alone
C26_OneResponse200ProcessEvaluation ==
    handler.file = "processEvaluation" => C26_OneResponse200

\* the handler of processEvaluation.js has answered a request without a body
C26_WitnessNoBody ==
    /\ handler.file = "processEvaluation" /\ ~handler.body.present
    /\ handler.pc = "done"
    /\ handler.responses = <<[code |-> 200, success |-> FALSE]>>

\* all calls of saveQuestionPaperToMongoDB have finished
AllCallsDone == \A c \in DOMAIN papers.calls : papers.calls[c].pc = "done"

\* C27: in any interleaving of calls of saveQuestionPaperToMongoDB with the
\* same tenantId and questionPaperUri, at most one QuestionPaper document
\* with softDelete false exists for the pair once all calls have finished
C27_AtMostOneDocument == AllCallsDone => Len(papers.docs) <= 1

\* the call of retryWithBackoff is over
RetryOver == retry.pc \in {"returned", "threw"}

\* the failures of fn before the last one
EarlierFailures == 1 .. (Len(retry.failures) - 1)

\* C28: retryWithBackoff with maxRetries >= 1 invokes fn at least once and at
\* most maxRetries times; a further invocation happens only directly after a
\* retryable failure of an attempt that is not the last; the first success is
\* returned, and a failure that is not retryable, or that of the
\* maxRetries-th attempt, is rethrown without further invocations
C28_RetriesOnlyRetryable ==
    /\ retry.invocations <= retry.maxRetries
    /\ RetryOver => retry.invocations >= 1
    /\ \A i \in EarlierFailures : isRetryable(retry.failures[i])
    /\ retry.pc \in {"call", "delay"} =>
         /\ retry.invocations = Len(retry.failures)
         /\ retry.invocations < retry.maxRetries
         /\ \A i \in 1 .. Len(retry.failures) : isRetryable(retry.failures[i])
    /\ retry.pc = "returned" => retry.invocations = Len(retry.failures) + 1
    /\ retry.pc = "threw" =>
         /\ retry.invocations = Len(retry.failures)
         /\ retry.thrown = <<retry.failures[Len(retry.failures)]>>
         /\ \/ ~isRetryable(retry.thrown[1])
            \/ retry.invocations = retry.maxRetries

\* C28: once the call is over fn is not invoked again
C28_NoInvocationAfterEnd ==
    [][RetryOver => retry'.invocations = retry.invocations]_vars

\* fn was invoked three times: two retryable failures, then the result
C28_Witness ==
    /\ retry.pc = "returned"
    /\ retry.maxRetries = 3
    /\ retry.invocations = 3
    /\ retry.failures[1].status = 503
    /\ includes(retry.failures[2].message, Overloaded)

\* C30: in index.js the error of generateStudentReportCard for a response
\* from which no valid JSON can be extracted is not retried: the model is
\* called exactly once, whatever text the response holds
C30_NoJSONNotRetried ==
    retry.extractionFailed =>
        /\ retry.pc = "threw"
        /\ retry.thrown = <<retry.failures[Len(retry.failures)]>>
        /\ (Len(retry.failures) = 1 => retry.invocations = 1)

\* C30 for the responses whose first PreviewLength characters hold neither
\* of the two words
C30_NoJSONNotRetriedWithoutWords ==
    (retry.extractionFailed /\ ~isRetryable(retry.failures[Len(retry.failures)]))
        => retry.pc = "threw"

\* a response without JSON that names the quota behind its preview was not
\* retried
C30_WitnessBehindPreview ==
    /\ retry.pc = "threw"
    /\ retry.invocations = 1
    /\ retry.extractionFailed
    /\ Len(retry.thrown[1].message) > PreviewLength

\* the request of processMarkingSchemeExtraction is over
ExtractionOver == caller.name = "markingScheme" /\ caller.pc = "done"

\* both documents are in the database with the given status, each with the
\* raw response
BothSavedAs(status) ==
    /\ caller.kept /\ caller.status = status
    /\ caller.rawResponse = caller.rawResponseText
    /\ caller.questionPaper.saved /\ caller.questionPaper.status = status
    /\ caller.questionPaper.rawResponse = caller.rawResponseText

\* C29: once processMarkingSchemeExtraction is over, the marking scheme and
\* the question paper are saved with status parse_failed, with the raw
\* response and without sections, exactly when parseJSONWithRepair threw, and
\* with status draft exactly when it returned
C29_SavedByOutcome ==
    ExtractionOver
        => /\ pc = "threw"
                 <=> /\ BothSavedAs("parse_failed")
                     /\ caller.sections = "none" /\ caller.questionPaper.sections = "none"
           /\ pc = "returned" <=> BothSavedAs("draft")

\* the same for the requests whose payload passes the validation of both
\* schemas
C29_SavedByOutcomeValidPayload ==
    ExtractionOver /\ QuestionPaperValid(caller.payload)
        => /\ pc = "threw"
                 <=> /\ BothSavedAs("parse_failed")
                     /\ caller.sections = "none" /\ caller.questionPaper.sections = "none"
           /\ pc = "returned" <=> BothSavedAs("draft")

\* a request with a tenantId and the language "English": the call threw, the
\* marking scheme is saved with parse_failed and the question paper is not
C29_WitnessQuestionPaperRejected ==
    /\ ExtractionOver /\ pc = "threw"
    /\ caller.payload = Payload(TRUE, "English")
    /\ caller.kept /\ caller.status = "parse_failed"
    /\ ~caller.questionPaper.saved
    /\ caller.responses = <<[code |-> 200, success |-> FALSE, status |-> "none"]>>

\* a request without a tenantId: the call threw and the raw response is in
\* neither collection
C29_WitnessNothingSaved ==
    /\ ExtractionOver /\ pc = "threw"
    /\ ~caller.payload.tenantId
    /\ ~caller.kept /\ ~caller.questionPaper.saved

====
